---- MODULE Spec2Model ----
(***************************************************************************)
(* Ingestion-and-lifecycle pipeline of the field-service dispatcher:       *)
(* TaskStatusMachine, TaskService (create, update_status, assign,          *)
(* update_planned_date), the admin task update, create_task_from_text,     *)
(* the message parser and its preview, the GeocodingService with its       *)
(* cache, and the RateLimiter of the login endpoint.                       *)
(*                                                                         *)
(* Texts are modelled as sequences of lexemes (tokens).  Where the source  *)
(* scans characters with a regular expression, the model scans lexemes;    *)
(* TokLen gives the number of characters a lexeme stands for.  Cyrillic    *)
(* words are transliterated: "No" is the ticket marker, "Avariynaya",      *)
(* "Srochnaya", "Planovaya", "Tekuschaya" are the priority words, "ul",    *)
(* "d", "korp", "kv", "SPb" are the abbreviations the normaliser expands   *)
(* or strips.  A full stop is always a lexeme of its own.                  *)
(***************************************************************************)
EXTENDS Integers, Sequences, FiniteSets, TLC

(***************************************************************************)
(* Bounds of the model.                                                    *)
(***************************************************************************)
MaxTasks == 1
MaxClock == 4
MaxCacheSize == 3
MaxGeoCalls == 2
MaxLoginCalls == 4

None == "None"

(***************************************************************************)
(* models/enums.py                                                         *)
(***************************************************************************)
TaskStatus == {"NEW", "IN_PROGRESS", "DONE", "CANCELLED"}

TaskPriority == {"PLANNED", "CURRENT", "URGENT", "EMERGENCY"}

(***************************************************************************)
(* services/auth.py create_default_users: the users table after start-up.  *)
(***************************************************************************)
Users == {1, 2}

UserRole == [u \in Users |-> IF u = 1 THEN "admin" ELSE "worker"]

(***************************************************************************)
(* services/task_state_machine.py                                          *)
(***************************************************************************)
VALID_TRANSITIONS ==
    [s \in TaskStatus |->
        CASE s = "NEW"         -> {"IN_PROGRESS", "CANCELLED"}
          [] s = "IN_PROGRESS" -> {"DONE", "CANCELLED"}
          [] s = "DONE"        -> {"IN_PROGRESS", "NEW"}
          [] s = "CANCELLED"   -> {"NEW", "IN_PROGRESS"}]

get_valid_transitions(current_status) ==
    IF current_status \in DOMAIN VALID_TRANSITIONS
    THEN VALID_TRANSITIONS[current_status]
    ELSE {}

\* the table read from the destination to the source
is_valid_transition_swapped(from_status, to_status) ==
    IF from_status = to_status
    THEN TRUE
    ELSE from_status \in get_valid_transitions(to_status)

is_valid_transition(from_status, to_status) ==
    IF from_status = to_status
    THEN TRUE
    ELSE to_status \in get_valid_transitions(from_status)

(***************************************************************************)
(* Lexemes.                                                                *)
(***************************************************************************)
DigitLen ==
    ("1173544" :> 7) @@ ("1138996" :> 7) @@ ("123" :> 3) @@ ("45" :> 2) @@
    ("3" :> 1) @@ ("1" :> 1)

IsDigits(t) == t \in DOMAIN DigitLen

WordLen ==
    ("Avariynaya" :> 9) @@ ("Srochnaya" :> 7) @@ ("srochnaya" :> 7) @@
    ("Planovaya" :> 8) @@ ("Tekuschaya" :> 7) @@
    ("Tsentralnaya" :> 11) @@ ("Novoselye" :> 9) @@
    ("ul" :> 2) @@ ("ulitsa" :> 5) @@ ("d" :> 1) @@ ("dom" :> 3) @@
    ("korp" :> 4) @@ ("korpus" :> 6) @@ ("kv" :> 2) @@
    ("SPb" :> 3) @@ ("Sankt-Peterburg" :> 15) @@
    ("podyezd" :> 7) @@ ("brelok" :> 6) @@ ("zayavka" :> 6)

TokLen(t) ==
    IF t \in DOMAIN DigitLen THEN DigitLen[t]
    ELSE IF t \in DOMAIN WordLen THEN WordLen[t]
    ELSE 1

IsSpace(t) == t \in {" ", "NL"}

RECURSIVE CharLen(_)
CharLen(text) ==
    IF text = <<>> THEN 0 ELSE TokLen(Head(text)) + CharLen(Tail(text))

RECURSIVE lstrip(_)
lstrip(text) ==
    IF text # <<>> /\ IsSpace(Head(text)) THEN lstrip(Tail(text)) ELSE text

RECURSIVE rstrip(_)
rstrip(text) ==
    IF text # <<>> /\ IsSpace(text[Len(text)])
    THEN rstrip(SubSeq(text, 1, Len(text) - 1))
    ELSE text

strip(text) == rstrip(lstrip(text))

\* index of the first lexeme at or after i that is not whitespace
RECURSIVE SkipSp(_, _)
SkipSp(text, i) ==
    IF i <= Len(text) /\ IsSpace(text[i]) THEN SkipSp(text, i + 1) ELSE i

\* str.lower() on the lexemes that occur in both cases
Lower(t) ==
    CASE t = "Avariynaya" -> "avariynaya"
      [] t = "Srochnaya"  -> "srochnaya"
      [] t = "Planovaya"  -> "planovaya"
      [] t = "Tekuschaya" -> "tekuschaya"
      [] OTHER -> t

HasWord(text, w) == \E i \in 1..Len(text) : Lower(text[i]) = Lower(w)

SetMin(S) == CHOOSE x \in S : \A y \in S : x <= y

(***************************************************************************)
(* services/geocoding.py extract_priority: stems searched in text.lower()  *)
(***************************************************************************)
StemAvariyn == {"avariynaya"}
StemSrochn == {"srochnaya"}
StemTekusch == {"tekuschaya"}

HasStem(text, stem) == \E i \in 1..Len(text) : Lower(text[i]) \in stem

extract_priority(text) ==
    IF HasStem(text, StemAvariyn) THEN "EMERGENCY"
    ELSE IF HasStem(text, StemSrochn) THEN "URGENT"
    ELSE IF HasStem(text, StemTekusch) THEN "CURRENT"
    ELSE "PLANNED"

(***************************************************************************)
(* services/geocoding.py extract_task_number: [N], No N, #N, zayavka N     *)
(* with N a run of 5 to 10 digits; the first pattern that matches wins.    *)
(***************************************************************************)
IsTicketDigits(t) == IsDigits(t) /\ TokLen(t) >= 5 /\ TokLen(t) <= 10

BracketHits(text) ==
    {i \in 1..Len(text) : /\ text[i] = "["
                          /\ i + 2 <= Len(text)
                          /\ IsTicketDigits(text[i + 1])
                          /\ text[i + 2] = "]"}

\* a marker lexeme, optional whitespace, then the digits
MarkerHits(text, markers) ==
    {i \in 1..Len(text) : /\ Lower(text[i]) \in markers
                          /\ SkipSp(text, i + 1) <= Len(text)
                          /\ IsTicketDigits(text[SkipSp(text, i + 1)])}

\* "#" must be followed by the digits immediately
HashHits(text) ==
    {i \in 1..Len(text) : /\ text[i] = "#"
                          /\ i + 1 <= Len(text)
                          /\ IsTicketDigits(text[i + 1])}

extract_task_number(text) ==
    IF BracketHits(text) # {} THEN text[SetMin(BracketHits(text)) + 1]
    ELSE IF MarkerHits(text, {"No"}) # {}
         THEN text[SkipSp(text, SetMin(MarkerHits(text, {"No"})) + 1)]
    ELSE IF HashHits(text) # {} THEN text[SetMin(HashHits(text)) + 1]
    ELSE IF MarkerHits(text, {"zayavka"}) # {}
         THEN text[SkipSp(text, SetMin(MarkerHits(text, {"zayavka"})) + 1)]
    ELSE ""

(***************************************************************************)
(* services/task_parser.py                                                 *)
(***************************************************************************)
PriorityWords == {"avariynaya", "srochnaya", "planovaya", "tekuschaya"}

NotRecognised == <<"Ne raspoznan">>

\* the parsers' None result
NoParse ==
    [format |-> "none", address |-> <<>>, external_id |-> None,
     priority |-> None]

\* index of the first lexeme at or after i that is neither "." nor whitespace
RECURSIVE SkipSep(_, _)
SkipSep(text, i) ==
    IF i <= Len(text) /\ (IsSpace(text[i]) \/ text[i] = ".")
    THEN SkipSep(text, i + 1)
    ELSE i

\* r"No(\d+)": the marker immediately followed by digits
ExternalIdHits(text) ==
    {i \in 1..Len(text) : /\ text[i] = "No"
                          /\ i + 1 <= Len(text)
                          /\ IsDigits(text[i + 1])}

\* index after an optional "." at i
SkipDot(text, i) == IF i <= Len(text) /\ text[i] = "." THEN i + 1 ELSE i

\* position of the digits of r"abbr\.?\s*(\d+)" when the abbreviation is at i
AbbrNumber(text, i) == SkipSp(text, SkipDot(text, i + 1))

\* r"kv\.?\s*(\d+)"
ApartmentHits(text) ==
    {i \in 1..Len(text) : /\ text[i] = "kv"
                          /\ AbbrNumber(text, i) <= Len(text)
                          /\ IsDigits(text[AbbrNumber(text, i)])}

\* positions of a priority word followed by at least one "." or whitespace
KeywordStarts(text) ==
    {k \in 1..Len(text) : /\ Lower(text[k]) \in PriorityWords
                          /\ SkipSep(text, k + 1) > k + 1}

NoNewline(text, a, b) == \A n \in a..b : text[n] # "NL"

\* (.+?podyezd\s*\d+): end index of the span that starts after keyword k
EntranceEnds(text, k) ==
    LET j == SkipSep(text, k + 1)
    IN {SkipSp(text, p + 1) : p \in
           {q \in j..Len(text) : /\ text[q] = "podyezd"
                                 /\ NoNewline(text, j, q)
                                 /\ SkipSp(text, q + 1) <= Len(text)
                                 /\ IsDigits(text[SkipSp(text, q + 1)])}}

\* (.+?(?:,\s*(?:SPb|Sankt-Peterburg)...)): end index of the span
CityEnds(text, k) ==
    LET j == SkipSep(text, k + 1)
    IN {SkipSp(text, c + 1) : c \in
           {q \in (j + 1)..Len(text) : /\ text[q] = ","
                                       /\ NoNewline(text, j, q)
                                       /\ SkipSp(text, q + 1) <= Len(text)
                                       /\ text[SkipSp(text, q + 1)] \in
                                              {"SPb", "Sankt-Peterburg"}}}

\* ([^.]+): end index of the span
SimpleEnd(text, k) ==
    LET j == SkipSep(text, k + 1)
        dots == {q \in j..Len(text) : text[q] = "."}
    IN IF dots = {} THEN Len(text) ELSE SetMin(dots) - 1

ExtractAddress(text) ==
    LET ks == KeywordStarts(text)
        ent == {k \in ks : EntranceEnds(text, k) # {}}
        cit == {k \in ks : CityEnds(text, k) # {}}
        sim == {k \in ks : SkipSep(text, k + 1) <= Len(text)}
    IN IF ent # {}
       THEN LET k == SetMin(ent)
            IN strip(SubSeq(text, SkipSep(text, k + 1),
                            SetMin(EntranceEnds(text, k))))
       ELSE IF cit # {}
       THEN LET k == SetMin(cit)
            IN strip(SubSeq(text, SkipSep(text, k + 1),
                            SetMin(CityEnds(text, k))))
       ELSE IF sim # {}
       THEN LET k == SetMin(sim)
            IN strip(SubSeq(text, SkipSep(text, k + 1), SimpleEnd(text, k)))
       ELSE NotRecognised

parse_dispatcher_format(text) ==
    IF strip(text) = <<>> \/ Head(strip(text)) # "No"
    THEN NoParse
    ELSE
    LET external_id == IF ExternalIdHits(text) # {}
                       THEN text[SetMin(ExternalIdHits(text)) + 1]
                       ELSE None
        priority == IF HasWord(text, "Avariynaya") THEN "EMERGENCY"
                    ELSE IF HasWord(text, "Srochnaya") THEN "URGENT"
                    ELSE IF HasWord(text, "Planovaya") THEN "PLANNED"
                    ELSE "CURRENT"
        apartment == IF ApartmentHits(text) # {}
                     THEN text[AbbrNumber(text, SetMin(ApartmentHits(text)))]
                     ELSE None
        base == ExtractAddress(text)
        address == IF apartment # None /\ base # NotRecognised
                   THEN base \o <<",", " ", "kv", ".", " ", apartment>>
                   ELSE base
    IN [format |-> "dispatcher", address |-> address,
        external_id |-> external_id, priority |-> priority]

\* text.split('\n') keeping the stripped non-empty lines; the first of them
RECURSIVE FirstLine(_)
FirstLine(text) ==
    IF text = <<>> \/ Head(text) = "NL" THEN <<>>
    ELSE <<Head(text)>> \o FirstLine(Tail(text))

RECURSIVE DropBlankLines(_)
DropBlankLines(text) ==
    IF text # <<>> /\ IsSpace(Head(text)) THEN DropBlankLines(Tail(text))
    ELSE text

parse_standard_format(text) ==
    LET body == DropBlankLines(text)
    IN IF body = <<>> THEN NoParse
       ELSE [format |-> "standard", address |-> strip(FirstLine(body)),
             external_id |-> None, priority |-> "CURRENT"]

MIN_PARSE_LEN == 10

\* parse_task_message that takes Format A only when an external id is found
parse_task_message_needs_id(text) ==
    IF text = <<>> \/ CharLen(strip(text)) < MIN_PARSE_LEN
    THEN NoParse
    ELSE LET t == strip(text)
         IN IF Head(t) = "No" /\ parse_dispatcher_format(t).external_id # None
            THEN parse_dispatcher_format(t)
            ELSE parse_standard_format(t)

parse_task_message(text) ==
    IF text = <<>> \/ CharLen(strip(text)) < MIN_PARSE_LEN
    THEN NoParse
    ELSE LET t == strip(text)
         IN IF Head(t) = "No" /\ parse_dispatcher_format(t) # NoParse
            THEN parse_dispatcher_format(t)
            ELSE parse_standard_format(t)

parse_dispatcher_message(text) ==
    LET result == parse_task_message(text)
    IN IF result # NoParse
       THEN [success |-> TRUE, data |-> result]
       ELSE [success |-> FALSE, data |-> NoParse]

(***************************************************************************)
(* services/geocoding.py normalize_address.  The passes are those whose    *)
(* patterns can match a text over the lexemes above: abbreviation          *)
(* expansion, removal of entrance, apartment, ticket number and priority   *)
(* word, removal of a bare number between commas or at the end, the        *)
(* problem-vocabulary filter and the final whitespace and comma clean-up.  *)
(***************************************************************************)
RECURSIVE ExpandAbbreviations(_)
ExpandAbbreviations(text) ==
    IF text = <<>> THEN <<>>
    ELSE LET h == Head(text)
             rest == Tail(text)
         IN CASE h = "SPb" ->
                   <<"Sankt-Peterburg">> \o ExpandAbbreviations(rest)
              [] h = "ul" /\ rest # <<>> /\ Head(rest) = "." ->
                   <<"ulitsa", " ">>
                       \o ExpandAbbreviations(lstrip(Tail(rest)))
              [] h = "d" /\ rest # <<>> /\ Head(rest) = "." ->
                   <<"dom", " ">>
                       \o ExpandAbbreviations(lstrip(Tail(rest)))
              [] h = "korp" /\ rest # <<>> /\ Head(rest) = "."
                            /\ lstrip(Tail(rest)) # <<>>
                            /\ IsDigits(Head(lstrip(Tail(rest)))) ->
                   <<"korpus", " ">>
                       \o ExpandAbbreviations(lstrip(Tail(rest)))
              [] OTHER -> <<h>> \o ExpandAbbreviations(rest)

\* text[i..] begins with an optional comma, whitespace and the lexeme w
StartsNoise(text, w) ==
    /\ text # <<>>
    /\ LET a == IF Head(text) = "," THEN 2 ELSE 1
           p == SkipSp(text, a)
       IN p <= Len(text) /\ text[p] = w

NoisePos(text, w) ==
    SkipSp(text, IF Head(text) = "," THEN 2 ELSE 1)

RECURSIVE DropUntilPunct(_)
DropUntilPunct(text) ==
    IF text = <<>> \/ Head(text) \in {".", ","} THEN text
    ELSE DropUntilPunct(Tail(text))

\* r',?\s*podyezd\s*[^\.,]*'
RECURSIVE RemoveEntrance(_)
RemoveEntrance(text) ==
    IF text = <<>> THEN <<>>
    ELSE IF StartsNoise(text, "podyezd")
    THEN RemoveEntrance(DropUntilPunct(
             SubSeq(text, NoisePos(text, "podyezd") + 1, Len(text))))
    ELSE <<Head(text)>> \o RemoveEntrance(Tail(text))

\* r',?\s*kv\.?\s*\d+'
RECURSIVE RemoveApartment(_)
RemoveApartment(text) ==
    IF text = <<>> THEN <<>>
    ELSE IF StartsNoise(text, "kv")
            /\ LET d == AbbrNumber(text, NoisePos(text, "kv"))
               IN d <= Len(text) /\ IsDigits(text[d])
    THEN RemoveApartment(
             SubSeq(text, AbbrNumber(text, NoisePos(text, "kv")) + 1,
                    Len(text)))
    ELSE <<Head(text)>> \o RemoveApartment(Tail(text))

\* r'zayavka\s*No?\s*\d+' and r'No\s*\d+'
TicketEnd(text) ==
    LET a == IF Lower(Head(text)) = "zayavka" THEN SkipSp(text, 2) ELSE 1
        b == IF a <= Len(text) /\ text[a] = "No" THEN SkipSp(text, a + 1)
             ELSE a
    IN IF /\ (Lower(Head(text)) = "zayavka" \/ Head(text) = "No")
          /\ b <= Len(text) /\ b > 1 /\ IsDigits(text[b])
       THEN b ELSE 0

RECURSIVE RemoveTicket(_)
RemoveTicket(text) ==
    IF text = <<>> THEN <<>>
    ELSE IF TicketEnd(text) > 0
    THEN RemoveTicket(SubSeq(text, TicketEnd(text) + 1, Len(text)))
    ELSE <<Head(text)>> \o RemoveTicket(Tail(text))

\* r'\b(Planovaya|Tekuschaya|Srochnaya|Avariynaya)\.?'
RECURSIVE RemovePriority(_)
RemovePriority(text) ==
    IF text = <<>> THEN <<>>
    ELSE IF Lower(Head(text)) \in PriorityWords
    THEN IF Len(text) >= 2 /\ text[2] = "."
         THEN RemovePriority(SubSeq(text, 3, Len(text)))
         ELSE RemovePriority(Tail(text))
    ELSE <<Head(text)>> \o RemovePriority(Tail(text))

\* r',\s*\d+\s*,'
RECURSIVE RemoveNumberBetweenCommas(_)
RemoveNumberBetweenCommas(text) ==
    IF text = <<>> THEN <<>>
    ELSE LET d == SkipSp(text, 2)
             c == SkipSp(text, d + 1)
         IN IF /\ Head(text) = ","
               /\ d <= Len(text) /\ IsDigits(text[d])
               /\ c <= Len(text) /\ text[c] = ","
            THEN RemoveNumberBetweenCommas(SubSeq(text, c + 1, Len(text)))
            ELSE <<Head(text)>> \o RemoveNumberBetweenCommas(Tail(text))

\* r',\s*\d+\s*$'
RECURSIVE RemoveTrailingNumber(_)
RemoveTrailingNumber(text) ==
    IF text = <<>> THEN <<>>
    ELSE LET d == SkipSp(text, 2)
         IN IF /\ Head(text) = ","
               /\ d <= Len(text) /\ IsDigits(text[d])
               /\ SkipSp(text, d + 1) > Len(text)
            THEN <<>>
            ELSE <<Head(text)>> \o RemoveTrailingNumber(Tail(text))

Cleanup(text) ==
    RemoveTrailingNumber(RemoveNumberBetweenCommas(RemovePriority(
        RemoveTicket(RemoveApartment(RemoveEntrance(text))))))

ProblemWords == {"brelok"}

\* result.split('.')
RECURSIVE SplitDots(_, _)
SplitDots(text, acc) ==
    IF text = <<>> THEN <<acc>>
    ELSE IF Head(text) = "." THEN <<acc>> \o SplitDots(Tail(text), <<>>)
    ELSE SplitDots(Tail(text), Append(acc, Head(text)))

KeepPart(part) ==
    /\ strip(part) # <<>>
    /\ ~(Len(strip(part)) = 1 /\ IsDigits(strip(part)[1]))
    /\ ~(\E i \in 1..Len(part) : part[i] \in ProblemWords)

RECURSIVE JoinParts(_)
JoinParts(parts) ==
    IF parts = <<>> THEN <<>>
    ELSE IF ~KeepPart(Head(parts)) THEN JoinParts(Tail(parts))
    ELSE LET rest == JoinParts(Tail(parts))
         IN IF rest = <<>> THEN strip(Head(parts))
            ELSE strip(Head(parts)) \o <<",", " ">> \o rest

\* re.sub(r'\s+', ' ', ...)
RECURSIVE CollapseSpaces(_)
CollapseSpaces(text) ==
    IF text = <<>> THEN <<>>
    ELSE IF IsSpace(Head(text))
    THEN <<" ">> \o CollapseSpaces(lstrip(text))
    ELSE <<Head(text)>> \o CollapseSpaces(Tail(text))

\* .strip(' ,.')
RECURSIVE StripPunctLeft(_)
StripPunctLeft(text) ==
    IF text # <<>> /\ Head(text) \in {" ", ",", "."}
    THEN StripPunctLeft(Tail(text)) ELSE text

RECURSIVE StripPunctRight(_)
StripPunctRight(text) ==
    IF text # <<>> /\ text[Len(text)] \in {" ", ",", "."}
    THEN StripPunctRight(SubSeq(text, 1, Len(text) - 1)) ELSE text

\* re.sub(r'\s*,\s*', ', ', ...)
RECURSIVE SpaceCommas(_)
SpaceCommas(text) ==
    IF text = <<>> THEN <<>>
    ELSE IF lstrip(text) # <<>> /\ Head(lstrip(text)) = ","
    THEN <<",", " ">> \o SpaceCommas(lstrip(Tail(lstrip(text))))
    ELSE <<Head(text)>> \o SpaceCommas(Tail(text))

normalize_address(address) ==
    LET result == Cleanup(ExpandAbbreviations(address))
        joined == JoinParts(SplitDots(result, <<>>))
        kept == IF joined # <<>> THEN joined ELSE result
    IN SpaceCommas(StripPunctRight(StripPunctLeft(CollapseSpaces(kept))))

(***************************************************************************)
(* services/geocoding.py: the match objects geocode() takes from the       *)
(* normalised address.                                                     *)
(***************************************************************************)
StreetTypes == {"ulitsa"}

\* r'(\S+)\s+(type)' or r'(type)\s+(\S+)'
street_match(normalized) ==
    \E i \in 1..Len(normalized) :
        /\ normalized[i] \in StreetTypes
        /\ \/ i >= 3 /\ IsSpace(normalized[i - 1])
                     /\ ~IsSpace(normalized[i - 2])
           \/ i + 2 <= Len(normalized) /\ IsSpace(normalized[i + 1])
                     /\ SkipSp(normalized, i + 1) <= Len(normalized)

\* r'(?:dom|d\.?)\s*(\d+)'
house_match(normalized) ==
    \E i \in 1..Len(normalized) :
        /\ normalized[i] \in {"dom", "d"}
        /\ AbbrNumber(normalized, i) <= Len(normalized)
        /\ IsDigits(normalized[AbbrNumber(normalized, i)])

\* r'(?:korpus|korp\.?|k\.?)\s*(\d+)'
corp_match(normalized) ==
    \E i \in 1..Len(normalized) :
        /\ normalized[i] \in {"korpus", "korp", "k"}
        /\ AbbrNumber(normalized, i) <= Len(normalized)
        /\ IsDigits(normalized[AbbrNumber(normalized, i)])

\* the full string with the country tried before the full string alone
Strategies_country_first(normalized) ==
    (IF street_match(normalized) /\ house_match(normalized)
     THEN <<"optimized">> \o
          (IF corp_match(normalized) THEN <<"optimized_no_corp">> ELSE <<>>)
     ELSE <<>>)
    \o <<"normalized_russia", "normalized">>

\* the queries geocode() sends, in order, while none has succeeded
Strategies(normalized) ==
    (IF street_match(normalized) /\ house_match(normalized)
     THEN <<"optimized">> \o
          (IF corp_match(normalized) THEN <<"optimized_no_corp">> ELSE <<>>)
     ELSE <<>>)
    \o <<"normalized", "normalized_russia">>

(***************************************************************************)
(* The cache: a Python dict, i.e. a list of (key, coords) in insertion     *)
(* order.  Coordinates are pairs of whole degrees.                         *)
(***************************************************************************)
Sentinel == <<0, 0>>

FoundCoords == {<<59, 30>>, <<60, 31>>}

EVICT_BATCH == 100

CacheKeys(c) == {c[i].key : i \in 1..Len(c)}

CacheIndex(c, key) == CHOOSE i \in 1..Len(c) : c[i].key = key

get_from_cache(c, key) == c[CacheIndex(c, key)].coords

\* eviction only once the cache is over its maximum
add_to_cache_late(c, max_size, key, coords) ==
    LET kept == IF Len(c) > max_size
                THEN SubSeq(c, (IF Len(c) < EVICT_BATCH THEN Len(c)
                                ELSE EVICT_BATCH) + 1, Len(c))
                ELSE c
    IN IF key \in CacheKeys(kept)
       THEN [kept EXCEPT ![CacheIndex(kept, key)].coords = coords]
       ELSE Append(kept, [key |-> key, coords |-> coords])

\* nothing stored
add_to_cache_dropped(c, max_size, key, coords) == c

\* the newest entries removed instead of the oldest
add_to_cache_evict_newest(c, max_size, key, coords) ==
    LET kept == IF Len(c) >= max_size
                THEN SubSeq(c, 1, Len(c) - (IF Len(c) < EVICT_BATCH
                                            THEN Len(c) ELSE EVICT_BATCH))
                ELSE c
    IN IF key \in CacheKeys(kept)
       THEN [kept EXCEPT ![CacheIndex(kept, key)].coords = coords]
       ELSE Append(kept, [key |-> key, coords |-> coords])

add_to_cache(c, max_size, key, coords) ==
    LET kept == IF Len(c) >= max_size
                THEN SubSeq(c, (IF Len(c) < EVICT_BATCH THEN Len(c)
                                ELSE EVICT_BATCH) + 1, Len(c))
                ELSE c
    IN IF key \in CacheKeys(kept)
       THEN [kept EXCEPT ![CacheIndex(kept, key)].coords = coords]
       ELSE Append(kept, [key |-> key, coords |-> coords])

(***************************************************************************)
(* The external lookup (Nominatim) as geocode() sees it: the first         *)
(* `fails` queries of a call return no location, the next one ends as     *)
(* `final` says: "found" (the location `coords`) or "error" (the client    *)
(* raises GeocoderTimedOut, GeocoderServiceError or another exception).    *)
(***************************************************************************)
MAX_QUERIES == 4

FoundAt(k, coords) == [fails |-> k - 1, final |-> "found", coords |-> coords]

NeverFound ==
    [fails |-> MAX_QUERIES, final |-> "found", coords |-> <<59, 30>>]

ErrorAt(k) == [fails |-> k - 1, final |-> "error", coords |-> <<59, 30>>]

\* the queries sent and what the external service answered to each
Lookups(strat, oracle) ==
    LET n == IF oracle.fails >= Len(strat) THEN Len(strat)
             ELSE oracle.fails + 1
    IN [i \in 1..n |->
           [query |-> strat[i],
            reply |-> IF i <= oracle.fails THEN "none" ELSE oracle.final]]

\* geocode() without its except clauses: an error of the client propagates
geocode_propagating(c, max_size, address, oracle) ==
    LET normalized == normalize_address(address)
        lookups == Lookups(Strategies(normalized), oracle)
    IN IF normalized \in CacheKeys(c)
       THEN [coords |-> get_from_cache(c, normalized), key |-> normalized,
             lookups |-> <<>>, cache |-> c, hit |-> TRUE, raised |-> FALSE]
       ELSE IF lookups[Len(lookups)].reply = "found"
       THEN [coords |-> oracle.coords, key |-> normalized,
             lookups |-> lookups,
             cache |-> add_to_cache(c, max_size, normalized, oracle.coords),
             hit |-> FALSE, raised |-> FALSE]
       ELSE [coords |-> Sentinel, key |-> normalized,
             lookups |-> lookups, cache |-> c, hit |-> FALSE,
             raised |-> lookups[Len(lookups)].reply = "error"]

\* geocode() that remembers a failed resolution too
geocode_caching_failure(c, max_size, address, oracle) ==
    LET normalized == normalize_address(address)
        lookups == Lookups(Strategies(normalized), oracle)
    IN IF normalized \in CacheKeys(c)
       THEN [coords |-> get_from_cache(c, normalized), key |-> normalized,
             lookups |-> <<>>, cache |-> c, hit |-> TRUE, raised |-> FALSE]
       ELSE IF lookups[Len(lookups)].reply = "found"
       THEN [coords |-> oracle.coords, key |-> normalized,
             lookups |-> lookups,
             cache |-> add_to_cache(c, max_size, normalized, oracle.coords),
             hit |-> FALSE, raised |-> FALSE]
       ELSE [coords |-> Sentinel, key |-> normalized,
             lookups |-> lookups,
             cache |-> add_to_cache(c, max_size, normalized, Sentinel),
             hit |-> FALSE, raised |-> FALSE]

\* geocode(): the coordinates returned, the queries sent, the cache after
geocode(c, max_size, address, oracle) ==
    LET normalized == normalize_address(address)
        lookups == Lookups(Strategies(normalized), oracle)
    IN IF normalized \in CacheKeys(c)
       THEN [coords |-> get_from_cache(c, normalized), key |-> normalized,
             lookups |-> <<>>, cache |-> c, hit |-> TRUE, raised |-> FALSE]
       ELSE IF lookups[Len(lookups)].reply = "found"
       THEN [coords |-> oracle.coords, key |-> normalized,
             lookups |-> lookups,
             cache |-> add_to_cache(c, max_size, normalized, oracle.coords),
             hit |-> FALSE, raised |-> FALSE]
       ELSE [coords |-> Sentinel, key |-> normalized,
             lookups |-> lookups, cache |-> c, hit |-> FALSE,
             raised |-> FALSE]

(***************************************************************************)
(* services/rate_limiter.py RateLimiter.  The dictionary of attempts is a  *)
(* function on every address, empty for an address never seen: is_allowed  *)
(* makes the empty entry itself before it reads it.  Times are whole       *)
(* seconds.                                                                *)
(***************************************************************************)
IPs == {"192.168.1.1", "192.168.1.2"}

RateLimiter(max_attempts, window_seconds) ==
    [max_attempts |-> max_attempts, window_seconds |-> window_seconds,
     attempts |-> [ip \in IPs |-> <<>>]]

LOGIN_MAX_ATTEMPTS == 5
LOGIN_WINDOW_SECONDS == 60

login_rate_limiter == RateLimiter(LOGIN_MAX_ATTEMPTS, LOGIN_WINDOW_SECONDS)

\* the timestamps of the list that lie inside the window
RECURSIVE InWindow(_, _)
InWindow(timestamps, window_start) ==
    IF timestamps = <<>> THEN <<>>
    ELSE IF Head(timestamps) > window_start
         THEN <<Head(timestamps)>> \o InWindow(Tail(timestamps),
                                                window_start)
         ELSE InWindow(Tail(timestamps), window_start)

\* is_allowed that lets the attempt through when the window is just full
is_allowed_one_more(self, ip_address, current_time) ==
    LET window_start == current_time - self.window_seconds
        kept == InWindow(self.attempts[ip_address], window_start)
        current_count == Len(kept)
        allowed == current_count <= self.max_attempts
    IN [is_allowed |-> allowed,
        remaining |-> IF allowed
                      THEN self.max_attempts - current_count - 1
                      ELSE 0,
        self |-> [self EXCEPT !.attempts[ip_address] =
                                  Append(kept, current_time)]]

\* the answer and the limiter after the call
is_allowed(self, ip_address, current_time) ==
    LET window_start == current_time - self.window_seconds
        kept == InWindow(self.attempts[ip_address], window_start)
        current_count == Len(kept)
        allowed == current_count < self.max_attempts
    IN [is_allowed |-> allowed,
        remaining |-> IF allowed
                      THEN self.max_attempts - current_count - 1
                      ELSE 0,
        self |-> [self EXCEPT !.attempts[ip_address] =
                                  Append(kept, current_time)]]

\* the seconds to wait as get_retry_after computes them from the oldest
\* attempt kept; the times are whole seconds, so int() changes nothing
get_retry_after(self, ip_address, current_time) ==
    IF self.attempts[ip_address] = <<>>
    THEN 0
    ELSE LET oldest_attempt == self.attempts[ip_address][1]
             window_start == oldest_attempt + self.window_seconds
         IN IF window_start - current_time > 0
            THEN window_start - current_time
            ELSE 0

(***************************************************************************)
(* State.                                                                  *)
(*   tasks          the tasks table; the row of id i is tasks[i]           *)
(*   comments       the comments table (the audit trail), oldest first     *)
(*   notifications  push messages queued and notification rows stored      *)
(*   cache          geocoding_service._cache                               *)
(*   cache_max_size geocoding_service._cache_max_size                      *)
(*   now            the clock read by datetime.now(); one tick per request *)
(*   last           the last request and how it ended                      *)
(*   geo            the geocode() calls made so far, oldest first          *)
(*   limiter        the RateLimiter: its settings and the attempts it kept *)
(*   replies        the answers of is_allowed so far, oldest first         *)
(*   calls          the calls of update_status in flight                   *)
(*   geocalls       the calls of geocode() in flight                       *)
(***************************************************************************)
VARIABLES tasks, comments, notifications, cache, cache_max_size, now,
          last, geo, limiter, replies, calls, geocalls

vars == <<tasks, comments, notifications, cache, cache_max_size, now,
          last, geo, limiter, replies, calls, geocalls>>

\* the rate limiter of the login endpoint and the answers it has given
limiter_vars == <<limiter, replies>>

\* the requests in flight: calls of update_status between their read of
\* the task and their commit, calls of geocode() between their lookup and
\* their return
flight_vars == <<calls, geocalls>>

MaxCalls == 2

CallIds == 1..MaxCalls

\* no request in flight
NoCall == [pc |-> "idle"]

NoUser == 0
NoTime == 0
NoDate == 0
NoTask == 0

NoRequest ==
    [op |-> "none", task_id |-> NoTask, new_status |-> None,
     text |-> <<>>, result |-> "none", valid |-> {}, parsed |-> NoParse]

GeoRecord(g, address) ==
    [key |-> g.key, address |-> address, lookups |-> g.lookups,
     coords |-> g.coords, hit |-> g.hit, raised |-> g.raised]

\* settings.GEOCODING_CACHE_SIZE
GEOCODING_CACHE_SIZE == 1000

Init ==
    /\ tasks = <<>>
    /\ comments = <<>>
    /\ notifications = {}
    /\ cache = <<>>
    /\ cache_max_size = GEOCODING_CACHE_SIZE
    /\ now = 1
    /\ last = NoRequest
    /\ geo = <<>>
    /\ limiter = login_rate_limiter
    /\ replies = <<>>
    /\ calls = [c \in CallIds |-> NoCall]
    /\ geocalls = [c \in CallIds |-> NoCall]

\* the same with GEOCODING_CACHE_SIZE set in the environment
InitConfigured ==
    /\ tasks = <<>>
    /\ comments = <<>>
    /\ notifications = {}
    /\ cache = <<>>
    /\ cache_max_size \in 1..MaxCacheSize
    /\ now = 1
    /\ last = NoRequest
    /\ geo = <<>>
    /\ limiter = login_rate_limiter
    /\ replies = <<>>
    /\ calls = [c \in CallIds |-> NoCall]
    /\ geocalls = [c \in CallIds |-> NoCall]

\* one number for every task
GeneratedNumber_fixed(id) == "Z-00001"

\* f"Z-{task.id:05d}"
GeneratedNumber(id) ==
    (IF id < 10 THEN "Z-0000" ELSE IF id < 100 THEN "Z-000" ELSE "Z-00")
        \o ToString(id)

(***************************************************************************)
(* Inputs.                                                                 *)
(***************************************************************************)
AddrStreet == <<"Tsentralnaya", " ", "ul", ".", ",", " ", "d", ".", "3">>

AddrStreetApt ==
    <<"Tsentralnaya", " ", "ulitsa", ",", " ", "dom", " ", "3", ",", " ",
      "kv", ".", "45">>

AddrCorp == AddrStreet \o <<",", " ", "korp", ".", " ", "1">>

AddrPlain == <<"Novoselye">>

AddrUrgent == <<"Srochnaya", ".", " ", "Novoselye">>

TitlePlain == <<"brelok">>

TitleNumbered == <<"[", "1138996", "]", " ", "brelok">>

\* Format A, the example of the parser's docstring
MsgDispatcher ==
    <<"No", "1173544", " ", "Tekuschaya", ".", " ">> \o AddrCorp
        \o <<",", " ", "podyezd", " ", "1", ".", " ", "brelok", ".", " ",
             "kv", ".", "45">>

MsgUrgent == <<"No", "123", " ", "Srochnaya", ".", " ", "Novoselye">>

\* Format A, eight characters
MsgShort == <<"No", "1173544">>

\* Format A, four characters
MsgTiny == <<"No", "123">>

\* the marker is not followed by digits
MsgNoId == <<"No", " ", "Planovaya", ".", " ", "Novoselye">>

\* Format B
MsgStandard == <<"Novoselye", "NL", "brelok">>

Messages ==
    {MsgDispatcher, MsgUrgent, MsgShort, MsgTiny, MsgNoId, MsgStandard}

\* ids of users, 0 for "nobody", 9 for an id no user has
AssigneeIds == {NoUser, 2, 9}

(***************************************************************************)
(* Rows and requests.                                                      *)
(***************************************************************************)
Request(op, task_id, result) ==
    [op |-> op, task_id |-> task_id, new_status |-> None, text |-> <<>>,
     result |-> result, valid |-> {}, parsed |-> NoParse]

\* a record that names the new status as the old one too
StatusComment_new_only(task_id, old_status, new_status, user) ==
    [task_id |-> task_id, kind |-> "status", old_status |-> new_status,
     new_status |-> new_status, old_assignee |-> NoUser,
     new_assignee |-> NoUser, author_id |-> user]

StatusComment(task_id, old_status, new_status, user) ==
    [task_id |-> task_id, kind |-> "status", old_status |-> old_status,
     new_status |-> new_status, old_assignee |-> NoUser,
     new_assignee |-> NoUser, author_id |-> user]

AssignComment(task_id, old_assignee, new_assignee, user) ==
    [task_id |-> task_id, kind |-> "assignment", old_status |-> None,
     new_status |-> None, old_assignee |-> old_assignee,
     new_assignee |-> new_assignee, author_id |-> user]

DateComment(task_id, user) ==
    [task_id |-> task_id, kind |-> "planned_date", old_status |-> None,
     new_status |-> None, old_assignee |-> NoUser,
     new_assignee |-> NoUser, author_id |-> user]

Notification(user_id, channel, kind, task_id) ==
    [user_id |-> user_id, channel |-> channel, kind |-> kind,
     task_id |-> task_id]

TaskExists(task_id) == task_id \in 1..Len(tasks)

\* no number generated when the dispatcher gave none
final_task_number_raw(task_number, id) ==
    IF task_number = None THEN "" ELSE task_number

\* the dispatcher's number ignored
final_task_number_generated(task_number, id) == GeneratedNumber(id)

\* task.task_number = task_number if task_number else f"Z-{task.id:05d}"
final_task_number(task_number, id) ==
    IF task_number \notin {"", None} THEN task_number
    ELSE GeneratedNumber(id)

(***************************************************************************)
(* services/task_service.py TaskService.create.  TaskCreate.status is any  *)
(* string or absent; TaskCreate.priority is absent or an integer 1..4,     *)
(* kept as its digits, which is what the String column gives back.         *)
(***************************************************************************)
BaseCreate ==
    [title |-> TitlePlain, address |-> AddrPlain, description |-> <<>>,
     status |-> None, priority |-> None, assigned_user_id |-> NoUser,
     planned_date |-> NoDate]

CreateInputs ==
    {BaseCreate}
    \cup {[BaseCreate EXCEPT !.status = s] :
             s \in {"IN_PROGRESS", "DONE", "ARCHIVED"}}
    \cup {[BaseCreate EXCEPT !.address = AddrUrgent,
                             !.assigned_user_id = 2],
          [BaseCreate EXCEPT !.title = TitleNumbered, !.priority = "3",
                             !.assigned_user_id = 9, !.planned_date = 7]}

\* create while the table holds fewer than max_tasks tasks
create_bounded(data, oracle, max_tasks) ==
    /\ now < MaxClock
    /\ Len(tasks) < max_tasks
    /\ \E g \in {geocode(cache, cache_max_size, data.address, oracle)} :
       LET priority == IF data.priority # None THEN data.priority
                       ELSE extract_priority(data.address)
           task_number ==
               IF extract_task_number(data.title) # ""
               THEN extract_task_number(data.title)
               ELSE IF extract_task_number(data.address) # ""
               THEN extract_task_number(data.address)
               ELSE extract_task_number(data.description)
           status == IF data.status \in TaskStatus THEN data.status
                     ELSE "NEW"
           assigned_id == IF data.assigned_user_id \in Users
                          THEN data.assigned_user_id ELSE NoUser
           id == Len(tasks) + 1
           task == [status |-> status,
                    completed_at |-> NoTime,
                    assigned_user_id |-> assigned_id,
                    task_number |-> final_task_number(task_number, id),
                    priority |-> priority,
                    planned_date |-> data.planned_date,
                    coords |-> g.coords]
       IN /\ cache' = g.cache
          /\ geo' = Append(geo, GeoRecord(g, data.address))
          /\ IF g.raised
             THEN /\ tasks' = tasks
                  /\ last' = [Request("create", NoTask, "Exception")
                                 EXCEPT !.new_status = data.status]
             ELSE /\ tasks' = Append(tasks, task)
                  /\ last' = [Request("create", id, "ok")
                                 EXCEPT !.new_status = data.status]
    /\ now' = now + 1
    /\ UNCHANGED limiter_vars
    /\ UNCHANGED flight_vars
    /\ UNCHANGED <<comments, notifications, cache_max_size>>

create(data, oracle) == create_bounded(data, oracle, MaxTasks)

(***************************************************************************)
(* api/tasks.py create_task_from_text                                      *)
(***************************************************************************)
MIN_TEXT_LEN == 5

\* the same while the table holds fewer than max_tasks tasks
from_text_bounded(text, assigned_user_id, oracle, max_tasks) ==
    /\ now < MaxClock
    /\ Len(tasks) < max_tasks
    /\ now' = now + 1
    /\ UNCHANGED limiter_vars
    /\ UNCHANGED flight_vars
    /\ UNCHANGED <<comments, notifications, cache_max_size>>
    /\ IF text = <<>> \/ CharLen(strip(text)) < MIN_TEXT_LEN
       THEN /\ last' = [Request("from_text", NoTask, "too_short")
                           EXCEPT !.text = text]
            /\ UNCHANGED <<tasks, cache, geo>>
       ELSE
       \E parse_result \in {parse_dispatcher_message(text)} :
       IF ~parse_result.success
       THEN /\ last' = [Request("from_text", NoTask, "parse_failed")
                           EXCEPT !.text = text]
            /\ UNCHANGED <<tasks, cache, geo>>
       ELSE
       \E g \in {geocode(cache, cache_max_size, parse_result.data.address,
                         oracle)} :
       LET parsed == parse_result.data
           external_id == parsed.external_id
           assigned_id == IF assigned_user_id \in Users
                          THEN assigned_user_id ELSE NoUser
           id == Len(tasks) + 1
           db_task == [status |-> "NEW",
                       completed_at |-> NoTime,
                       assigned_user_id |-> assigned_id,
                       task_number |-> final_task_number(external_id, id),
                       priority |-> parsed.priority,
                       planned_date |-> NoDate,
                       coords |-> g.coords]
       IN /\ cache' = g.cache
          /\ geo' = Append(geo, GeoRecord(g, parsed.address))
          /\ IF g.raised
             THEN /\ tasks' = tasks
                  /\ last' = [Request("from_text", NoTask, "Exception")
                                 EXCEPT !.text = text]
             ELSE /\ tasks' = Append(tasks, db_task)
                  /\ last' = [Request("from_text", id, "ok")
                                 EXCEPT !.text = text, !.parsed = parsed]

create_task_from_text(text, assigned_user_id, oracle) ==
    from_text_bounded(text, assigned_user_id, oracle, MaxTasks)

(***************************************************************************)
(* api/tasks.py parse_task_text: the preview of the parse, nothing stored  *)
(***************************************************************************)
parse_task_text(text) ==
    /\ now < MaxClock
    /\ now' = now + 1
    /\ UNCHANGED limiter_vars
    /\ UNCHANGED flight_vars
    /\ UNCHANGED <<tasks, comments, notifications, cache, cache_max_size,
                   geo>>
    /\ IF text = <<>> \/ CharLen(strip(text)) < MIN_TEXT_LEN
       THEN last' = [Request("parse", NoTask, "too_short")
                        EXCEPT !.text = text]
       ELSE \E parse_result \in {parse_dispatcher_message(text)} :
                last' = [Request("parse", NoTask,
                                 IF parse_result.success THEN "ok"
                                 ELSE "parse_failed")
                            EXCEPT !.text = text,
                                   !.parsed = parse_result.data]

(***************************************************************************)
(* services/task_service.py TaskService._notify_status_change and          *)
(* services/notification_service.py create_task_status_notification        *)
(***************************************************************************)
\* the push sent to the assignee whoever changed the status
notify_status_change_always(task_id, task, user) ==
    IF task.assigned_user_id # NoUser
    THEN {Notification(task.assigned_user_id, "push", "status_change",
                       task_id)}
    ELSE {}

notify_status_change(task_id, task, user) ==
    IF task.assigned_user_id # NoUser /\ user # task.assigned_user_id
    THEN {Notification(task.assigned_user_id, "push", "status_change",
                       task_id)}
    ELSE {}

\* the stored notification for the assignee only, the admins never told
status_notification_assignee_only(task_id, task, new_status, changed_by) ==
    IF task.assigned_user_id # NoUser
       /\ task.assigned_user_id # changed_by
    THEN {Notification(task.assigned_user_id, "db", "status", task_id)}
    ELSE {}

create_task_status_notification(task_id, task, new_status, changed_by) ==
    (IF task.assigned_user_id # NoUser
        /\ task.assigned_user_id # changed_by
     THEN {Notification(task.assigned_user_id, "db", "status", task_id)}
     ELSE {})
    \cup
    (IF new_status \in {"NEW", "IN_PROGRESS"}
        /\ UserRole[changed_by] \notin {"admin", "dispatcher"}
     THEN {Notification(u, "db", "status", task_id) :
              u \in {a \in Users : /\ UserRole[a] \in {"admin", "dispatcher"}
                                   /\ a # changed_by}}
     ELSE {})

(***************************************************************************)
(* services/task_service.py TaskService.update_status                      *)
(***************************************************************************)
\* the completion time written on every request for DONE
completed_at_restamped(old_status, new_status, completed_at, time) ==
    IF new_status = "DONE" THEN time ELSE NoTime

\* the completion time never cleared when the task leaves DONE
completed_at_kept(old_status, new_status, completed_at, time) ==
    IF new_status = "DONE" /\ old_status # "DONE" THEN time
    ELSE completed_at

completed_at_after(old_status, new_status, completed_at, time) ==
    IF new_status = "DONE" /\ old_status # "DONE" THEN time
    ELSE IF new_status # "DONE" THEN NoTime
    ELSE completed_at

\* the status written and committed before the transition is validated
update_status_rejected_late(task_id, new_status, user) ==
    /\ last' = [Request("update_status", task_id, "InvalidTransition")
                   EXCEPT !.new_status = new_status,
                          !.valid =
                              get_valid_transitions(tasks[task_id].status)]
    /\ tasks' = [tasks EXCEPT ![task_id].status = new_status]
    /\ UNCHANGED <<comments, notifications>>

\* the call raises InvalidTransitionError before anything is written
update_status_rejected(task_id, new_status, user) ==
    /\ last' = [Request("update_status", task_id, "InvalidTransition")
                   EXCEPT !.new_status = new_status,
                          !.valid =
                              get_valid_transitions(tasks[task_id].status)]
    /\ UNCHANGED <<tasks, comments, notifications>>

update_status(task_id, new_status, user) ==
    /\ now < MaxClock
    /\ now' = now + 1
    /\ UNCHANGED limiter_vars
    /\ UNCHANGED flight_vars
    /\ UNCHANGED <<cache, cache_max_size, geo>>
    /\ IF ~TaskExists(task_id)
       THEN /\ last' = [Request("update_status", task_id, "NotFound")
                           EXCEPT !.new_status = new_status]
            /\ UNCHANGED <<tasks, comments, notifications>>
       ELSE
       LET old_status == tasks[task_id].status
       IN IF ~is_valid_transition(old_status, new_status)
          THEN update_status_rejected(task_id, new_status, user)
          ELSE
          LET task == [tasks[task_id] EXCEPT
                          !.status = new_status,
                          !.completed_at =
                              completed_at_after(old_status, new_status,
                                                 @, now)]
          IN /\ tasks' = [tasks EXCEPT ![task_id] = task]
             /\ comments' = Append(comments,
                    StatusComment(task_id, old_status, new_status, user))
             /\ notifications' = notifications
                    \cup notify_status_change(task_id, task, user)
                    \cup create_task_status_notification(task_id, task,
                                                         new_status, user)
             /\ last' = [Request("update_status", task_id, "ok")
                            EXCEPT !.new_status = new_status]

(***************************************************************************)
(* update_status as two requests interleave it.  The request reads the     *)
(* task into its session (api/deps.py get_task_or_404; get_by_id then      *)
(* answers from the same session); update_status checks the transition     *)
(* against the status that was read and commits.  No lock is taken between *)
(* the two steps and the row holds no version.  The UPDATE of the commit   *)
(* sets the columns whose value differs from the one read; db.refresh      *)
(* then loads the row, which the notifications are made from.              *)
(***************************************************************************)
get_task_or_404(c, task_id, new_status, user) ==
    /\ calls[c].pc = "idle"
    /\ TaskExists(task_id)
    /\ calls' = [calls EXCEPT ![c] =
                    [pc |-> "read", task_id |-> task_id,
                     new_status |-> new_status, user |-> user,
                     task |-> tasks[task_id]]]
    /\ UNCHANGED limiter_vars
    /\ UNCHANGED <<tasks, comments, notifications, cache, cache_max_size,
                   now, last, geo, geocalls>>

update_status_commit(c) ==
    /\ calls[c].pc = "read"
    /\ now < MaxClock
    /\ now' = now + 1
    /\ calls' = [calls EXCEPT ![c] = NoCall]
    /\ UNCHANGED limiter_vars
    /\ UNCHANGED <<cache, cache_max_size, geo, geocalls>>
    /\ LET task_id == calls[c].task_id
           new_status == calls[c].new_status
           user == calls[c].user
           old_status == calls[c].task.status
           completed_at == completed_at_after(old_status, new_status,
                                              calls[c].task.completed_at,
                                              now)
           row == [tasks[task_id] EXCEPT
                      !.status = IF new_status # old_status
                                 THEN new_status ELSE @,
                      !.completed_at =
                          IF completed_at # calls[c].task.completed_at
                          THEN completed_at ELSE @]
       IN IF ~is_valid_transition(old_status, new_status)
          THEN /\ last' = [Request("update_status", task_id,
                                   "InvalidTransition")
                              EXCEPT !.new_status = new_status,
                                     !.valid =
                                         get_valid_transitions(old_status)]
               /\ UNCHANGED <<tasks, comments, notifications>>
          ELSE /\ tasks' = [tasks EXCEPT ![task_id] = row]
               /\ comments' = Append(comments,
                      StatusComment(task_id, old_status, new_status, user))
               /\ notifications' = notifications
                      \cup notify_status_change(task_id, row, user)
                      \cup create_task_status_notification(task_id, row,
                                                           new_status, user)
               /\ last' = [Request("update_status", task_id, "ok")
                              EXCEPT !.new_status = new_status]

(***************************************************************************)
(* services/task_service.py TaskService._notify_assignment: the comparison *)
(* task.priority >= 3 raises TypeError when the priority is a str, which   *)
(* is what the String column of the tasks table holds.                     *)
(***************************************************************************)
notify_assignment_raises(task) == task.priority \in STRING

(***************************************************************************)
(* services/task_service.py TaskService.assign                             *)
(***************************************************************************)
\* a record of the assignment written on every call
assignee_changed_always(old_assignee_id, new_assignee_id) == TRUE

\* old_assignee_id != task.assigned_user_id
assignee_changed(old_assignee_id, new_assignee_id) ==
    old_assignee_id # new_assignee_id

assign(task_id, assignee_id, user) ==
    /\ now < MaxClock
    /\ now' = now + 1
    /\ UNCHANGED limiter_vars
    /\ UNCHANGED flight_vars
    /\ UNCHANGED <<cache, cache_max_size, geo>>
    /\ IF ~TaskExists(task_id)
       THEN /\ last' = Request("assign", task_id, "NotFound")
            /\ UNCHANGED <<tasks, comments, notifications>>
       ELSE IF assignee_id # NoUser /\ assignee_id \notin Users
       THEN /\ last' = Request("assign", task_id, "UserNotFound")
            /\ UNCHANGED <<tasks, comments, notifications>>
       ELSE
       LET old_assignee_id == tasks[task_id].assigned_user_id
           task == [tasks[task_id] EXCEPT !.assigned_user_id = assignee_id]
       IN /\ tasks' = [tasks EXCEPT ![task_id] = task]
          /\ comments' =
                 IF assignee_changed(old_assignee_id, assignee_id)
                 THEN Append(comments, AssignComment(task_id,
                                 old_assignee_id, assignee_id, user))
                 ELSE comments
          /\ IF assignee_id # NoUser /\ assignee_id # old_assignee_id
             THEN IF notify_assignment_raises(task)
                  THEN /\ notifications' = notifications
                       /\ last' = Request("assign", task_id, "TypeError")
                  ELSE /\ notifications' = notifications
                           \cup {Notification(assignee_id, "push",
                                              "task_assigned", task_id)}
                           \cup (IF assignee_id = user THEN {}
                                 ELSE {Notification(assignee_id, "db",
                                                    "assignment", task_id)})
                       /\ last' = Request("assign", task_id, "ok")
             ELSE /\ notifications' = notifications
                  /\ last' = Request("assign", task_id, "ok")

(***************************************************************************)
(* services/task_service.py TaskService.update_planned_date                *)
(***************************************************************************)
\* update_planned_date that also stores a notification for the actor
update_planned_date_notifying(task_id, planned_date, user) ==
    /\ now < MaxClock
    /\ now' = now + 1
    /\ UNCHANGED limiter_vars
    /\ UNCHANGED flight_vars
    /\ UNCHANGED <<cache, cache_max_size, geo>>
    /\ IF ~TaskExists(task_id)
       THEN /\ last' = Request("update_planned_date", task_id, "NotFound")
            /\ UNCHANGED <<tasks, comments, notifications>>
       ELSE /\ tasks' = [tasks EXCEPT ![task_id].planned_date = planned_date]
            /\ comments' = Append(comments, DateComment(task_id, user))
            /\ notifications' = notifications
                   \cup {Notification(user, "db", "planned_date", task_id)}
            /\ last' = Request("update_planned_date", task_id, "ok")

update_planned_date(task_id, planned_date, user) ==
    /\ now < MaxClock
    /\ now' = now + 1
    /\ UNCHANGED limiter_vars
    /\ UNCHANGED flight_vars
    /\ UNCHANGED <<cache, cache_max_size, geo, notifications>>
    /\ IF ~TaskExists(task_id)
       THEN /\ last' = Request("update_planned_date", task_id, "NotFound")
            /\ UNCHANGED <<tasks, comments>>
       ELSE /\ tasks' = [tasks EXCEPT ![task_id].planned_date = planned_date]
            /\ comments' = Append(comments, DateComment(task_id, user))
            /\ last' = Request("update_planned_date", task_id, "ok")

(***************************************************************************)
(* api/admin.py admin_update_task.  A field of TaskUpdate that is absent   *)
(* is None (status, priority), the empty text (address), -1                *)
(* (assigned_user_id) or planned_set = FALSE (planned_date).               *)
(***************************************************************************)
Absent == -1

NoUpdate ==
    [address |-> <<>>, status |-> None, priority |-> None,
     planned_set |-> FALSE, planned_date |-> NoDate,
     assigned_user_id |-> Absent]

AdminInputs ==
    {[NoUpdate EXCEPT !.status = s] : s \in TaskStatus \cup {"ARCHIVED"}}
    \cup {[NoUpdate EXCEPT !.assigned_user_id = a] : a \in AssigneeIds}
    \cup {[NoUpdate EXCEPT !.address = AddrUrgent, !.priority = "4",
                           !.planned_set = TRUE]}

admin_update_task(task_id, task_data, oracle) ==
    /\ now < MaxClock
    /\ now' = now + 1
    /\ UNCHANGED limiter_vars
    /\ UNCHANGED flight_vars
    /\ UNCHANGED <<cache_max_size, comments>>
    /\ IF ~TaskExists(task_id)
       THEN /\ last' = Request("admin_update", task_id, "NotFound")
            /\ UNCHANGED <<tasks, notifications, cache, geo>>
       ELSE
       \E g \in {geocode(cache, cache_max_size, task_data.address, oracle)} :
       LET old == tasks[task_id]
           geocoded == task_data.address # <<>>
           new_assigned_user_id ==
               IF task_data.assigned_user_id \in Users
               THEN task_data.assigned_user_id ELSE NoUser
           task ==
               [old EXCEPT
                  !.coords = IF geocoded THEN g.coords ELSE @,
                  !.status = IF task_data.status # None
                             THEN task_data.status ELSE @,
                  !.completed_at =
                      IF task_data.status # None
                      THEN completed_at_after(old.status, task_data.status,
                                              @, now)
                      ELSE @,
                  !.priority = IF task_data.priority # None
                               THEN task_data.priority ELSE @,
                  !.planned_date = IF task_data.planned_set
                                   THEN task_data.planned_date ELSE @,
                  !.assigned_user_id =
                      IF task_data.assigned_user_id = Absent THEN @
                      ELSE IF task_data.assigned_user_id = NoUser
                      THEN NoUser
                      ELSE IF task_data.assigned_user_id \in Users
                      THEN task_data.assigned_user_id
                      ELSE @]
           notifies == /\ new_assigned_user_id # NoUser
                       /\ new_assigned_user_id # old.assigned_user_id
       IN /\ cache' = IF geocoded THEN g.cache ELSE cache
          /\ geo' = IF geocoded
                    THEN Append(geo, GeoRecord(g, task_data.address))
                    ELSE geo
          /\ IF geocoded /\ g.raised
             THEN /\ UNCHANGED <<tasks, notifications>>
                  /\ last' = Request("admin_update", task_id, "Exception")
             ELSE /\ tasks' = [tasks EXCEPT ![task_id] = task]
                  /\ IF notifies /\ notify_assignment_raises(task)
                     THEN /\ notifications' = notifications
                          /\ last' = [Request("admin_update", task_id, "TypeError")
                                         EXCEPT !.new_status =
                                                    task_data.status]
                     ELSE /\ notifications' =
                                 IF notifies
                                 THEN notifications \cup
                                      {Notification(new_assigned_user_id,
                                           "push", "task_assigned", task_id)}
                                 ELSE notifications
                          /\ last' = [Request("admin_update", task_id, "ok")
                                         EXCEPT !.new_status =
                                                    task_data.status]

(***************************************************************************)
(* Direct calls of the geocoding service, as its unit tests make them.     *)
(***************************************************************************)
GeocodeCall(address, oracle) ==
    /\ Len(geo) < MaxGeoCalls
    /\ \E g \in {geocode(cache, cache_max_size, address, oracle)} :
          /\ cache' = g.cache
          /\ geo' = Append(geo, GeoRecord(g, address))
    /\ UNCHANGED limiter_vars
    /\ UNCHANGED flight_vars
    /\ UNCHANGED <<tasks, comments, notifications, cache_max_size, now,
                   last>>

(***************************************************************************)
(* geocode() called from several threads on the one geocoding_service.     *)
(* The service takes no lock: between the statements of _add_to_cache      *)
(* (the test of the size with the list of the keys to remove, each del,    *)
(* the assignment) another thread may run its own.  A KeyError of del is   *)
(* caught by `except Exception` of geocode(), which then returns (0, 0).   *)
(***************************************************************************)
\* the cache check and the lookups of the call, up to _add_to_cache
geocode_lookup(c, address, oracle) ==
    /\ geocalls[c].pc = "idle"
    /\ Len(geo) + Cardinality({d \in CallIds : geocalls[d].pc # "idle"})
           < MaxGeoCalls
    /\ \E g \in {geocode(cache, cache_max_size, address, oracle)} :
          IF g.hit \/ g.coords = Sentinel
          THEN /\ geo' = Append(geo, GeoRecord(g, address))
               /\ UNCHANGED geocalls
          ELSE /\ geocalls' = [geocalls EXCEPT ![c] =
                                  [pc |-> "add", call |-> g,
                                   address |-> address,
                                   keys_to_remove |-> <<>>]]
               /\ UNCHANGED geo
    /\ UNCHANGED limiter_vars
    /\ UNCHANGED <<tasks, comments, notifications, cache, cache_max_size,
                   now, last, calls>>

\* if len(self._cache) >= self._cache_max_size: keys_to_remove = ...
add_to_cache_test(c) ==
    /\ geocalls[c].pc = "add"
    /\ geocalls' = [geocalls EXCEPT ![c] =
           IF Len(cache) >= cache_max_size
           THEN [@ EXCEPT !.pc = "del",
                          !.keys_to_remove =
                              [i \in 1..(IF Len(cache) < EVICT_BATCH
                                         THEN Len(cache) ELSE EVICT_BATCH)
                                  |-> cache[i].key]]
           ELSE [@ EXCEPT !.pc = "set"]]
    /\ UNCHANGED limiter_vars
    /\ UNCHANGED <<tasks, comments, notifications, cache, cache_max_size,
                   now, last, geo, calls>>

\* del self._cache[k] for the next key of the list
add_to_cache_del(c) ==
    /\ geocalls[c].pc = "del"
    /\ \E k \in {Head(geocalls[c].keys_to_remove)} :
          IF k \notin CacheKeys(cache)
          THEN /\ geo' = Append(geo,
                      GeoRecord([geocalls[c].call EXCEPT !.coords = Sentinel],
                                geocalls[c].address))
               /\ geocalls' = [geocalls EXCEPT ![c] = NoCall]
               /\ UNCHANGED cache
          ELSE /\ cache' = SelectSeq(cache, LAMBDA e : e.key # k)
               /\ geocalls' = [geocalls EXCEPT ![c] =
                      [@ EXCEPT !.keys_to_remove = Tail(@),
                                !.pc = IF Tail(geocalls[c].keys_to_remove)
                                            = <<>>
                                       THEN "set" ELSE "del"]]
               /\ UNCHANGED geo
    /\ UNCHANGED limiter_vars
    /\ UNCHANGED <<tasks, comments, notifications, cache_max_size, now,
                   last, calls>>

\* self._cache[key] = coords, and geocode() returns coords
add_to_cache_set(c) ==
    /\ geocalls[c].pc = "set"
    /\ \E key \in {geocalls[c].call.key} :
       \E coords \in {geocalls[c].call.coords} :
          cache' = IF key \in CacheKeys(cache)
                   THEN [cache EXCEPT ![CacheIndex(cache, key)].coords =
                                          coords]
                   ELSE Append(cache, [key |-> key, coords |-> coords])
    /\ geo' = Append(geo, GeoRecord(geocalls[c].call, geocalls[c].address))
    /\ geocalls' = [geocalls EXCEPT ![c] = NoCall]
    /\ UNCHANGED limiter_vars
    /\ UNCHANGED <<tasks, comments, notifications, cache_max_size, now,
                   last, calls>>

\* `last` tells the key and whether the cache was full at the call
AddToCache(key, coords) ==
    /\ cache' = add_to_cache(cache, cache_max_size, key, coords)
    /\ last' = [Request("add_to_cache", NoTask,
                        IF Len(cache) >= cache_max_size THEN "full"
                        ELSE "room") EXCEPT !.text = key]
    /\ UNCHANGED limiter_vars
    /\ UNCHANGED flight_vars
    /\ UNCHANGED <<tasks, comments, notifications, cache_max_size, now,
                   geo>>

\* the addresses with a street and a house number
StreetAddresses == {AddrStreet, AddrStreetApt, AddrCorp}

KeyInputs == {<<"a">>, <<"b">>, <<"c">>, <<"d">>}

(***************************************************************************)
(* The task API: the five operations on tasks.                             *)
(***************************************************************************)
TaskIds == 1..MaxTasks

\* every request with the location found, the plain one also without
CreateCalls ==
    {[data |-> d, oracle |-> FoundAt(1, <<59, 30>>)] : d \in CreateInputs}
    \cup {[data |-> BaseCreate, oracle |-> o] :
             o \in {NeverFound, ErrorAt(1), ErrorAt(2)}}

CreateTask == \E c \in CreateCalls : create(c.data, c.oracle)

UpdateStatus == \E id \in TaskIds, st \in TaskStatus, u \in Users :
                    update_status(id, st, u)

Assign == \E id \in TaskIds, a \in AssigneeIds, u \in Users :
              assign(id, a, u)

UpdatePlannedDate == \E id \in TaskIds, u \in Users :
                         update_planned_date(id, 7, u)

AdminUpdateTask == \E id \in TaskIds, data \in AdminInputs :
                       admin_update_task(id, data, NeverFound)

Next ==
    \/ CreateTask
    \/ UpdateStatus
    \/ Assign
    \/ UpdatePlannedDate
    \/ AdminUpdateTask

Spec == Init /\ [][Next]_vars

(***************************************************************************)
(* Intake from text: tasks come from messages and are then worked on.      *)
(***************************************************************************)
\* every message with the location found, one also without, one assigned
TextCalls ==
    {[text |-> m, assigned_user_id |-> NoUser,
      oracle |-> FoundAt(1, <<59, 30>>)] : m \in Messages}
    \cup {[text |-> MsgUrgent, assigned_user_id |-> NoUser, oracle |-> o] :
             o \in {NeverFound, ErrorAt(1)}}
    \cup {[text |-> MsgDispatcher, assigned_user_id |-> 2,
           oracle |-> FoundAt(1, <<59, 30>>)]}

CreateTaskFromText ==
    \E c \in TextCalls :
        create_task_from_text(c.text, c.assigned_user_id, c.oracle)

ParseTaskText == \E m \in Messages : parse_task_text(m)

NextText ==
    \/ CreateTaskFromText
    \/ ParseTaskText
    \/ UpdateStatus
    \/ Assign

SpecText == Init /\ [][NextText]_vars

(***************************************************************************)
(* Several tasks created one after another, by either endpoint.            *)
(***************************************************************************)
MaxNumbered == 3

CreateNumbered ==
    \E c \in CreateCalls : create_bounded(c.data, c.oracle, MaxNumbered)

CreateNumberedFromText ==
    \E c \in TextCalls :
        from_text_bounded(c.text, c.assigned_user_id, c.oracle, MaxNumbered)

NextNumbers ==
    \/ CreateNumbered
    \/ CreateNumberedFromText

SpecNumbers == Init /\ [][NextNumbers]_vars

(***************************************************************************)
(* Requests for a change of status that run at the same time.              *)
(***************************************************************************)
GetTaskOr404 ==
    \E c \in CallIds, id \in TaskIds, st \in TaskStatus, u \in Users :
        get_task_or_404(c, id, st, u)

UpdateStatusCommit == \E c \in CallIds : update_status_commit(c)

NextRace ==
    \/ CreateTask
    \/ GetTaskOr404
    \/ UpdateStatusCommit

SpecRace == Init /\ [][NextRace]_vars

(***************************************************************************)
(* The geocoding service alone.                                            *)
(***************************************************************************)
GeoOracles ==
    {FoundAt(k, <<59, 30>>) : k \in 1..MAX_QUERIES}
    \cup {FoundAt(1, <<60, 31>>), NeverFound}
    \cup {ErrorAt(k) : k \in 1..MAX_QUERIES}

Geocode == \E address \in StreetAddresses, oracle \in GeoOracles :
               GeocodeCall(address, oracle)

NextGeo == Geocode

SpecGeo == InitConfigured /\ [][NextGeo]_vars

(***************************************************************************)
(* The geocoding service called from several threads.                      *)
(***************************************************************************)
GeocodeLookup ==
    \E c \in CallIds, address \in StreetAddresses, oracle \in GeoOracles :
        geocode_lookup(c, address, oracle)

AddToCacheTest == \E c \in CallIds : add_to_cache_test(c)

AddToCacheDel == \E c \in CallIds : add_to_cache_del(c)

AddToCacheSet == \E c \in CallIds : add_to_cache_set(c)

NextGeoRace ==
    \/ GeocodeLookup
    \/ AddToCacheTest
    \/ AddToCacheDel
    \/ AddToCacheSet

SpecGeoRace == InitConfigured /\ [][NextGeoRace]_vars

(***************************************************************************)
(* The cache alone.                                                        *)
(***************************************************************************)
Insert == \E key \in KeyInputs, coords \in FoundCoords :
              AddToCache(key, coords)

NextCache == Insert

SpecCache == InitConfigured /\ [][NextCache]_vars

(***************************************************************************)
(* The cache with a maximum above the size of an eviction batch, started   *)
(* when it has been filled, or filled but for one entry, by insertions of  *)
(* different keys.                                                         *)
(***************************************************************************)
MaxSurvivors == 2

\* the key of the n-th address inserted
FifoKey(n) == <<ToString(n)>>

\* the cache after the keys 1..n were inserted in this order
Filled(n) == [i \in 1..n |-> [key |-> FifoKey(i), coords |-> <<59, 30>>]]

InitFifo ==
    /\ tasks = <<>>
    /\ comments = <<>>
    /\ notifications = {}
    /\ cache_max_size \in {EVICT_BATCH + k : k \in 1..MaxSurvivors}
    /\ cache \in {Filled(cache_max_size - 1), Filled(cache_max_size)}
    /\ now = 1
    /\ last = NoRequest
    /\ geo = <<>>
    /\ limiter = login_rate_limiter
    /\ replies = <<>>
    /\ calls = [c \in CallIds |-> NoCall]
    /\ geocalls = [c \in CallIds |-> NoCall]

\* an old key, the keys after the first batch, and a new key
FifoKeys ==
    {FifoKey(1)} \cup {FifoKey(EVICT_BATCH + k) : k \in 1..(MaxSurvivors + 1)}

InsertFifo == \E key \in FifoKeys, coords \in FoundCoords :
                  AddToCache(key, coords)

NextFifo == InsertFifo

SpecFifo == InitFifo /\ [][NextFifo]_vars

(***************************************************************************)
(* The rate limiter alone: calls of is_allowed from two addresses while    *)
(* the time passes.  `now` is the reading of time.time().                  *)
(***************************************************************************)
\* RateLimiter(max_attempts, window_seconds) as the tests construct it
LimiterConfigs ==
    {[max_attempts |-> 1, window_seconds |-> 1],
     [max_attempts |-> 1, window_seconds |-> 2],
     [max_attempts |-> 2, window_seconds |-> 2],
     [max_attempts |-> 2, window_seconds |-> 60]}

InitLimiter ==
    /\ tasks = <<>>
    /\ comments = <<>>
    /\ notifications = {}
    /\ cache = <<>>
    /\ cache_max_size = GEOCODING_CACHE_SIZE
    /\ now = 1
    /\ last = NoRequest
    /\ geo = <<>>
    /\ limiter \in {RateLimiter(c.max_attempts, c.window_seconds) :
                        c \in LimiterConfigs}
    /\ replies = <<>>
    /\ calls = [c \in CallIds |-> NoCall]
    /\ geocalls = [c \in CallIds |-> NoCall]

\* a call as login makes it: get_retry_after is asked when is_allowed
\* has answered blocked
IsAllowedCall(ip_address) ==
    /\ Len(replies) < MaxLoginCalls
    /\ LET r == is_allowed(limiter, ip_address, now)
       IN /\ limiter' = r.self
          /\ replies' = Append(replies,
                               [ip |-> ip_address, time |-> now,
                                is_allowed |-> r.is_allowed,
                                remaining |-> r.remaining,
                                retry_after |->
                                    IF r.is_allowed THEN Absent
                                    ELSE get_retry_after(r.self, ip_address,
                                                         now)])
    /\ UNCHANGED flight_vars
    /\ UNCHANGED <<tasks, comments, notifications, cache, cache_max_size,
                   now, last, geo>>

\* a second passes without a call
Sleep ==
    /\ now < MaxClock
    /\ now' = now + 1
    /\ UNCHANGED flight_vars
    /\ UNCHANGED <<tasks, comments, notifications, cache, cache_max_size,
                   last, geo, limiter, replies>>

IsAllowed == \E ip \in IPs : IsAllowedCall(ip)

NextRate ==
    \/ IsAllowed
    \/ Sleep

SpecRate == InitLimiter /\ [][NextRate]_vars

(***************************************************************************)
(* Properties of the task life cycle.                                      *)
(***************************************************************************)

\* the transition table as the specification states it (section 4.3)
TableDestinations(from) ==
    CASE from = "NEW"         -> {"IN_PROGRESS", "CANCELLED"}
      [] from = "IN_PROGRESS" -> {"DONE", "CANCELLED"}
      [] from = "DONE"        -> {"NEW", "IN_PROGRESS"}
      [] from = "CANCELLED"   -> {"NEW", "IN_PROGRESS"}
      [] OTHER                -> {}

\* the step is a call of update_status for the existing task id
IsUpdateStatus(id) ==
    /\ now' = now + 1
    /\ last'.op = "update_status"
    /\ last'.task_id = id
    /\ TaskExists(id)

\* C1: for distinct statuses from and to, update_status on a task in `from`
\* succeeds and sets the status to `to` exactly when (from, to) is in the
\* transition table; every other pair is rejected with InvalidTransition
\* naming the valid destinations of `from`, the status staying as it was.
C1_TransitionCompleteness ==
    [][\A id \in TaskIds :
          (/\ IsUpdateStatus(id)
           /\ tasks[id].status \in TaskStatus
           /\ last'.new_status # tasks[id].status)
          => IF last'.new_status \in TableDestinations(tasks[id].status)
             THEN /\ last'.result = "ok"
                  /\ tasks'[id].status = last'.new_status
             ELSE /\ last'.result = "InvalidTransition"
                  /\ last'.valid = TableDestinations(tasks[id].status)
                  /\ tasks'[id].status = tasks[id].status]_vars

\* a transition of the table was made (NEW to IN_PROGRESS), then
\* IN_PROGRESS to NEW was rejected naming DONE and CANCELLED
C1_Witness ==
    /\ last.op = "update_status"
    /\ last.result = "InvalidTransition"
    /\ last.new_status = "NEW"
    /\ last.valid = {"DONE", "CANCELLED"}
    /\ TaskExists(last.task_id)
    /\ tasks[last.task_id].status = "IN_PROGRESS"
    /\ \E i \in 1..Len(comments) :
          /\ comments[i].kind = "status"
          /\ comments[i].old_status = "NEW"
          /\ comments[i].new_status = "IN_PROGRESS"

\* C2: in every reachable state, for every task, completed_at is non-null
\* if and only if the status of the task is DONE.
C2_CompletedAtIffDone ==
    \A id \in 1..Len(tasks) :
        (tasks[id].completed_at # NoTime) <=> (tasks[id].status = "DONE")

\* C3: whichever operation performs it, each change of the status of a
\* persisted task from X to a different Y is a pair of the transition table.
C3_StatusChangesOnlyViaTable ==
    [][\A id \in 1..Len(tasks) :
          tasks'[id].status # tasks[id].status
          => tasks'[id].status \in TableDestinations(tasks[id].status)]_vars

\* C4: update_status to the status the task already has is accepted, and
\* the status and completed_at of the task are what they were before.
C4_SameStatusIsNoOp ==
    [][\A id \in TaskIds :
          (/\ IsUpdateStatus(id)
           /\ last'.new_status = tasks[id].status)
          => /\ last'.result = "ok"
             /\ tasks'[id].status = tasks[id].status
             /\ tasks'[id].completed_at = tasks[id].completed_at]_vars

\* DONE was requested for a task completed at an earlier time, and the
\* completion time is still that earlier time
C4_Witness ==
    /\ last.op = "update_status"
    /\ last.result = "ok"
    /\ last.new_status = "DONE"
    /\ TaskExists(last.task_id)
    /\ tasks[last.task_id].status = "DONE"
    /\ tasks[last.task_id].completed_at # NoTime
    /\ tasks[last.task_id].completed_at < now - 1
    /\ comments # <<>>
    /\ comments[Len(comments)].kind = "status"
    /\ comments[Len(comments)].old_status = "DONE"
    /\ comments[Len(comments)].new_status = "DONE"

\* C5: when update_status is rejected with InvalidTransition, or
\* update_status, assign or update_planned_date fails with NotFound for the
\* task id, or assign fails with NotFound for the user id, the status,
\* completed_at and assignee of every task, the audit trail and the
\* notifications are the same as before the call.
C5_TypedErrorsChangeNothing ==
    [][(/\ now' = now + 1
        /\ last'.op \in {"update_status", "assign", "update_planned_date"}
        /\ last'.result \in {"InvalidTransition", "NotFound",
                             "UserNotFound"})
       => /\ Len(tasks') = Len(tasks)
          /\ \A id \in 1..Len(tasks) :
                /\ tasks'[id].status = tasks[id].status
                /\ tasks'[id].completed_at = tasks[id].completed_at
                /\ tasks'[id].assigned_user_id = tasks[id].assigned_user_id
          /\ comments' = comments
          /\ notifications' = notifications]_vars

\* a transition was rejected for a task that has an audit trail
C5_Witness ==
    /\ last.op = "update_status"
    /\ last.result = "InvalidTransition"
    /\ TaskExists(last.task_id)
    /\ comments # <<>>
    /\ notifications # {}

\* C6: a task has a task_number from its creation on, and no later
\* operation changes it.
C6_TaskNumberSetOnce ==
    [][/\ \A id \in 1..Len(tasks') : tasks'[id].task_number \notin {"", None}
       /\ Len(tasks') >= Len(tasks)
       /\ \A id \in 1..Len(tasks) :
             tasks'[id].task_number = tasks[id].task_number]_vars

\* a task created with the dispatcher's number, its status changed, then
\* updated by the administrator: the number is the dispatcher's
C6_Witness ==
    /\ last.op = "admin_update"
    /\ last.result = "ok"
    /\ TaskExists(last.task_id)
    /\ tasks[last.task_id].task_number = "1138996"
    /\ comments # <<>>

(***************************************************************************)
(* Properties of the intake from text.                                     *)
(***************************************************************************)

\* Format A: the text starts with the ticket marker followed by digits
IsFormatA(text) ==
    /\ Len(text) >= 2
    /\ text[1] = "No"
    /\ IsDigits(text[2])

\* the request l made, in the table ts, a task with status NEW, the number
\* that follows the marker and the priority the parser of Format A gives
RoundTripOf(l, ts) ==
    /\ l.result = "ok"
    /\ l.task_id \in 1..Len(ts)
    /\ ts[l.task_id].status = "NEW"
    /\ ts[l.task_id].task_number = l.text[2]
    /\ ts[l.task_id].priority = parse_dispatcher_format(l.text).priority

RoundTrip == RoundTripOf(last, tasks)

C8_CacheBounded == Len(cache) <= cache_max_size

\* an insertion was made into a full cache of two entries
C8_Witness ==
    /\ last.op = "add_to_cache"
    /\ last.result = "full"
    /\ cache_max_size = 2
    /\ cache # <<>>

\* two consecutive calls whose inputs normalise to the same string
SameKeyCalls == {i \in 1..(Len(geo) - 1) : geo[i].key = geo[i + 1].key}

\* C9 as stated: two consecutive geocode() calls whose inputs normalise to
\* the same string make exactly one outbound lookup between them.
C9_ExactlyOneLookup ==
    \A i \in SameKeyCalls :
        Len(geo[i].lookups) + Len(geo[i + 1].lookups) = 1

\* C9: of two consecutive geocode() calls whose inputs normalise to the
\* same string, if the first returns a location the second makes no
\* outbound lookup and returns the same location; if the first returns
\* (0, 0) nothing was cached and the second queries the service again.
C9_SecondCallServedFromCache ==
    \A i \in SameKeyCalls :
        IF geo[i].coords # Sentinel
        THEN /\ geo[i + 1].lookups = <<>>
             /\ geo[i + 1].coords = geo[i].coords
        ELSE /\ ~geo[i + 1].hit
             /\ Len(geo[i + 1].lookups) >= 1

\* two different texts with one normal form: the first was answered by the
\* second query sent, the second came from the cache
C9_Witness ==
    \E i \in SameKeyCalls :
        /\ geo[i].address # geo[i + 1].address
        /\ Len(geo[i].lookups) = 2
        /\ geo[i].coords # Sentinel
        /\ geo[i + 1].hit
        /\ geo[i + 1].coords = geo[i].coords

\* every query of the call was answered "not found", or one raised
LookupsFailed(call) ==
    /\ ~call.hit
    /\ \/ \A k \in 1..Len(call.lookups) : call.lookups[k].reply = "none"
       \/ \E k \in 1..Len(call.lookups) : call.lookups[k].reply = "error"

\* C10: geocode() never raises; when every lookup reports not-found or a
\* lookup raises, it returns exactly (0, 0), and the create that called it
\* completes and persists the task with the coordinate (0, 0).
C10_FailureSentinel ==
    /\ \A i \in 1..Len(geo) :
          /\ ~geo[i].raised
          /\ LookupsFailed(geo[i]) => geo[i].coords = Sentinel
    /\ (/\ last.op = "create"
        /\ geo # <<>>
        /\ LookupsFailed(geo[Len(geo)]))
       => /\ last.result = "ok"
          /\ TaskExists(last.task_id)
          /\ tasks[last.task_id].coords = Sentinel

\* a create whose second query raised: the task is there, at (0, 0)
C10_Witness ==
    /\ last.op = "create"
    /\ last.result = "ok"
    /\ geo # <<>>
    /\ Len(geo[Len(geo)].lookups) = 2
    /\ geo[Len(geo)].lookups[2].reply = "error"
    /\ TaskExists(last.task_id)
    /\ tasks[last.task_id].coords = Sentinel

(***************************************************************************)
(* Properties of the parser behind the two text entry points.              *)
(***************************************************************************)
IsTextRequest == last.op \in {"from_text", "parse"}

\* C11 as stated: a text that passes the minimum-length gate of the
\* ingestion or preview entry point is never answered with a parse failure.
C11_NoParseFailurePastGate ==
    (IsTextRequest /\ CharLen(strip(last.text)) >= MIN_TEXT_LEN)
    => last.result # "parse_failed"

\* C12: for every input whose trimmed length is at least the parser's
\* minimum, the parse returns a structure, in Format A when the trimmed
\* text starts with the ticket marker and in Format B otherwise.
C12_ParserTotalCoverage ==
    (IsTextRequest /\ CharLen(strip(last.text)) >= MIN_PARSE_LEN)
    => /\ last.result = "ok"
       /\ last.parsed # NoParse
       /\ last.parsed.format = IF Head(strip(last.text)) = "No"
                               THEN "dispatcher" ELSE "standard"

\* a text that starts with the marker but carries no number was previewed
\* and came back in Format A without an external id
C12_Witness ==
    /\ last.op = "parse"
    /\ CharLen(strip(last.text)) >= MIN_PARSE_LEN
    /\ Head(strip(last.text)) = "No"
    /\ last.parsed.format = "dispatcher"
    /\ last.parsed.external_id = None

(***************************************************************************)
(* Properties of the priority of a created task.                           *)
(***************************************************************************)
NoPrioritySignal(text) ==
    \A i \in 1..Len(text) : Lower(text[i]) \notin PriorityWords

\* C13 as stated: a task created from a text has one of the four canonical
\* priorities, and the priority PLANNED when the text names no priority.
C13_CanonicalPriorityDefaultPlanned ==
    (last.op = "from_text" /\ last.result = "ok")
    => /\ tasks[last.task_id].priority \in TaskPriority
       /\ NoPrioritySignal(last.text)
              => tasks[last.task_id].priority = "PLANNED"

(***************************************************************************)
(* Properties of TaskService.assign.                                       *)
(***************************************************************************)
\* the step is a call of assign on a task that exists
IsAssign == /\ now' = now + 1
            /\ last'.op = "assign"
            /\ TaskExists(last'.task_id)

\* C14: assign appends no record when the resulting assignee equals the
\* previous one (unassigning an unassigned task included) and exactly one
\* assignment record, from the previous to the new assignee, when it
\* differs.
C14_RecordIffAssigneeChanged ==
    [][IsAssign =>
        LET id == last'.task_id
            old == tasks[id].assigned_user_id
            new == tasks'[id].assigned_user_id
        IN IF old = new
           THEN comments' = comments
           ELSE \E u \in Users :
                    comments' = Append(comments,
                                       AssignComment(id, old, new, u))]_vars

\* the task was taken away from its assignee and the record says so
C14_Witness ==
    /\ last.op = "assign"
    /\ last.result = "ok"
    /\ tasks[last.task_id].assigned_user_id = NoUser
    /\ comments # <<>>
    /\ comments[Len(comments)].kind = "assignment"
    /\ comments[Len(comments)].old_assignee = 2
    /\ comments[Len(comments)].new_assignee = NoUser

\* C15 as stated: a call of assign that gives the task to a new assignee
\* emits no notification at all when the actor is that assignee, and emits
\* a notification to the assignee when the actor is someone else.
C15_NotifyUnlessSelfAssignment ==
    [][IsAssign =>
        LET id == last'.task_id
            old == tasks[id].assigned_user_id
            new == tasks'[id].assigned_user_id
        IN (old # new /\ new # NoUser) =>
               LET actor == comments'[Len(comments')].author_id
               IN IF new = actor
                  THEN notifications' = notifications
                  ELSE \E n \in notifications' :
                           /\ n.user_id = new
                           /\ n.task_id = id
                           /\ n.kind \in {"task_assigned",
                                          "assignment"}]_vars

(***************************************************************************)
(* Properties of the notifications of TaskService.update_status.           *)
(***************************************************************************)
\* the step is a call of update_status that was accepted
IsAcceptedUpdateStatus == /\ now' = now + 1
                          /\ last'.op = "update_status"
                          /\ last'.result = "ok"

PrivilegedUsers == {u \in Users : UserRole[u] \in {"admin", "dispatcher"}}

C18_RescheduleChangesOnlyDate ==
    [][(/\ now' = now + 1
        /\ last'.op = "update_planned_date"
        /\ last'.result = "ok")
       => LET id == last'.task_id
          IN /\ tasks'[id].planned_date = 7
             /\ tasks' = [tasks EXCEPT ![id].planned_date = 7]
             /\ tasks'[id].status = tasks[id].status
             /\ tasks'[id].completed_at = tasks[id].completed_at
             /\ tasks'[id].assigned_user_id = tasks[id].assigned_user_id
             /\ tasks'[id].task_number = tasks[id].task_number
             /\ \E u \in Users :
                    comments' = Append(comments, DateComment(id, u))
             /\ notifications' = notifications]_vars

\* a finished task of the worker was given a planned date
C18_Witness ==
    /\ last.op = "update_planned_date"
    /\ last.result = "ok"
    /\ tasks[last.task_id].planned_date = 7
    /\ tasks[last.task_id].status = "DONE"
    /\ tasks[last.task_id].completed_at # NoTime
    /\ tasks[last.task_id].assigned_user_id = 2
    /\ comments[Len(comments)].kind = "planned_date"

(***************************************************************************)
(* Notifications and the result of the call that emits them.               *)
(***************************************************************************)
\* C19 as stated: whenever update_status or assign has persisted its
\* change to the task, the call returns success, whatever happens to the
\* notifications it hands off.
C19_PersistedChangeReturnsSuccess ==
    [][(/\ now' = now + 1
        /\ last'.op \in {"update_status", "assign"}
        /\ tasks' # tasks)
       => last'.result = "ok"]_vars

(***************************************************************************)
(* Properties of the rate limiter.                                         *)
(***************************************************************************)
\* the answers given to the address before answer n that lie inside the
\* window of answer n
EarlierInWindow(n) ==
    {i \in 1..(n - 1) :
        /\ replies[i].ip = replies[n].ip
        /\ replies[i].time > replies[n].time - limiter.window_seconds}

\* the allowed answers to the address in the seconds start+1 .. start+window
AllowedInWindow(ip, start) ==
    {i \in 1..Len(replies) :
        /\ replies[i].ip = ip
        /\ replies[i].is_allowed
        /\ replies[i].time > start
        /\ replies[i].time <= start + limiter.window_seconds}

\* C20: for every address at most max_attempts calls of is_allowed are
\* answered allowed within any window of window_seconds; a call made when
\* max_attempts attempts of the address lie inside the window is answered
\* blocked with remaining = 0; the answer depends on the attempts of the
\* same address only, and a call leaves the attempts of the other
\* addresses as they were.
C20_LoginRateLimit ==
    /\ \A ip \in IPs : \A start \in 0..MaxClock :
           Cardinality(AllowedInWindow(ip, start)) <= limiter.max_attempts
    /\ \A n \in 1..Len(replies) :
           LET count == Cardinality(EarlierInWindow(n))
           IN IF count >= limiter.max_attempts
              THEN /\ ~replies[n].is_allowed
                   /\ replies[n].remaining = 0
              ELSE /\ replies[n].is_allowed
                   /\ replies[n].remaining =
                          limiter.max_attempts - count - 1
    /\ \A ip \in IPs :
           LET own == {i \in 1..Len(replies) : replies[i].ip = ip}
           IN IF own = {}
              THEN limiter.attempts[ip] = <<>>
              ELSE LET n == CHOOSE i \in own : \A j \in own : j <= i
                   IN Len(limiter.attempts[ip]) =
                          Cardinality(EarlierInWindow(n)) + 1

\* one address used up its two attempts and was blocked with nothing
\* remaining, then the other address was still allowed in the same second
C20_Witness ==
    /\ limiter.max_attempts = 2
    /\ Len(replies) = 4
    /\ \A i \in 1..3 : replies[i].ip = "192.168.1.1"
    /\ replies[1].is_allowed /\ replies[2].is_allowed
    /\ ~replies[3].is_allowed /\ replies[3].remaining = 0
    /\ replies[4].ip = "192.168.1.2"
    /\ replies[4].time = replies[3].time
    /\ replies[4].is_allowed /\ replies[4].remaining = 1

(***************************************************************************)
(* The completion time after an accepted update_status.                    *)
(***************************************************************************)
\* C21: an accepted update_status from a status other than DONE to DONE
\* sets completed_at to the time of the call, and an accepted update_status
\* to any status other than DONE leaves completed_at null.
C21_CompletedAtFollowsTransition ==
    [][IsAcceptedUpdateStatus =>
        LET id == last'.task_id
            record == comments'[Len(comments')]
        IN /\ (record.new_status = "DONE" /\ record.old_status # "DONE")
                  => /\ tasks'[id].completed_at # NoTime
                     /\ tasks'[id].completed_at = now
           /\ record.new_status # "DONE"
                  => tasks'[id].completed_at = NoTime]_vars

\* a task was completed and then reopened to IN_PROGRESS, which cleared
\* its completion time
C21_Witness ==
    /\ last.op = "update_status"
    /\ last.result = "ok"
    /\ Len(comments) >= 2
    /\ comments[Len(comments) - 1].kind = "status"
    /\ comments[Len(comments) - 1].old_status = "IN_PROGRESS"
    /\ comments[Len(comments) - 1].new_status = "DONE"
    /\ comments[Len(comments)].old_status = "DONE"
    /\ comments[Len(comments)].new_status = "IN_PROGRESS"
    /\ tasks[last.task_id].status = "IN_PROGRESS"
    /\ tasks[last.task_id].completed_at = NoTime

(***************************************************************************)
(* Properties of the fallback chain of geocode().                          *)
(***************************************************************************)
\* the place of a query in the order the specification gives
QueryRank(query) ==
    CASE query = "optimized" -> 1
      [] query = "optimized_no_corp" -> 2
      [] query = "normalized" -> 3
      [] query = "normalized_russia" -> 4

\* C22: a call that hits the cache sends no query; a call that misses
\* sends its queries in the order compact, compact without the corpus
\* (only after a compact query of an address with a corpus), full string,
\* full string with the country, each at most once, each only after every
\* earlier one was answered "not found", and none after a success; when
\* every query is answered "not found" the chain runs to its last query.
C22_FallbackOrder ==
    \A i \in 1..Len(geo) :
        LET sent == geo[i].lookups
        IN IF geo[i].hit
           THEN sent = <<>>
           ELSE /\ Len(sent) >= 1
                /\ \A k \in 1..(Len(sent) - 1) :
                       /\ sent[k].reply = "none"
                       /\ QueryRank(sent[k].query)
                              < QueryRank(sent[k + 1].query)
                /\ \A k \in 1..Len(sent) :
                       sent[k].query = "optimized_no_corp"
                           => /\ k > 1
                              /\ sent[k - 1].query = "optimized"
                              /\ corp_match(geo[i].key)
                /\ \A k \in 1..Len(sent) :
                       (sent[k].query = "normalized" /\ k > 1
                            /\ corp_match(geo[i].key))
                           => sent[k - 1].query = "optimized_no_corp"
                /\ (\A k \in 1..Len(sent) : sent[k].reply = "none")
                       => sent[Len(sent)].query = "normalized_russia"

\* an address with a corpus was found by the fourth query only, and the
\* next call for it was answered from the cache without a query
C22_Witness ==
    /\ Len(geo) = 2
    /\ Len(geo[1].lookups) = 4
    /\ geo[1].lookups[1].query = "optimized"
    /\ geo[1].lookups[2].query = "optimized_no_corp"
    /\ geo[1].lookups[3].query = "normalized"
    /\ geo[1].lookups[4].query = "normalized_russia"
    /\ geo[1].lookups[4].reply = "found"
    /\ geo[2].key = geo[1].key
    /\ geo[2].hit
    /\ geo[2].lookups = <<>>

\* C23 as stated: a query that raises counts as a failed attempt only, and
\* the call goes on with the next query of the chain.
C23_ErrorContinuesChain ==
    \A i \in 1..Len(geo) :
        \A k \in 1..Len(geo[i].lookups) :
            (/\ geo[i].lookups[k].reply = "error"
             /\ k < Len(Strategies(geo[i].key)))
            => Len(geo[i].lookups) > k

\* the call found a location: its last query was answered "found"
LookupSucceeded(call) ==
    /\ ~call.hit
    /\ call.lookups # <<>>
    /\ call.lookups[Len(call.lookups)].reply = "found"

\* C24: the cache changes only inside a geocode() call whose lookup
\* succeeded: the call stores the coordinates it returns under the
\* normalized address and adds nothing else; a call answered from the
\* cache and a call that returns (0, 0) leave the cache as it was.
C24_CacheWrittenOnlyOnSuccess ==
    [][/\ cache' # cache => geo' # geo
       /\ geo' # geo =>
            \A call \in {geo'[Len(geo')]} : \A after \in {cache'} :
               IF LookupSucceeded(call)
               THEN /\ call.coords # Sentinel
                    /\ call.key \in CacheKeys(after)
                    /\ get_from_cache(after, call.key) = call.coords
                    /\ \A i \in 1..Len(after) :
                           after[i].key # call.key
                               => \E j \in 1..Len(cache) :
                                      cache[j] = after[i]
               ELSE /\ after = cache
                    /\ ~call.hit => /\ call.coords = Sentinel
                                    /\ call.key \notin CacheKeys(after)]_vars

\* one call found a location and cached it; the next, for another address,
\* failed after its whole chain and the cache holds the first entry only
C24_Witness ==
    /\ Len(geo) = 2
    /\ LookupSucceeded(geo[1])
    /\ ~geo[2].hit
    /\ geo[2].coords = Sentinel
    /\ Len(geo[2].lookups) >= 3
    /\ geo[2].key # geo[1].key
    /\ CacheKeys(cache) = {geo[1].key}
    /\ get_from_cache(cache, geo[1].key) = geo[1].coords

\* the number of entries _add_to_cache removes from a cache of this size
EvictedCount(size, max_size) ==
    IF size >= max_size
    THEN (IF size < EVICT_BATCH THEN size ELSE EVICT_BATCH)
    ELSE 0

\* C25: an insertion into a cache below its maximum removes nothing; an
\* insertion into a cache that has reached the maximum removes the
\* min(100, size) entries inserted earliest and keeps the later ones in
\* their order, then stores the new entry: at the end when its key is not
\* among the entries kept, in place when it is.
C25_BatchFifoEviction ==
    [][last'.op = "add_to_cache" =>
        \A before \in {cache} : \A after \in {cache'} :
        \A key \in {last'.text} :
            LET size == Len(before)
                evicted == EvictedCount(size, cache_max_size)
                kept == {before[i].key : i \in (evicted + 1)..size}
            IN /\ (last'.result = "room") = (evicted = 0)
               /\ last'.result = "full"
                      => evicted = (IF size < EVICT_BATCH THEN size
                                    ELSE EVICT_BATCH)
               /\ \A i \in 1..evicted :
                      before[i].key # key
                          => before[i].key \notin CacheKeys(after)
               /\ \A i \in (evicted + 1)..size :
                      /\ after[i - evicted].key = before[i].key
                      /\ before[i].key # key
                             => after[i - evicted] = before[i]
               /\ key \in CacheKeys(after)
               /\ Len(after) = size - evicted
                                   + (IF key \in kept THEN 0 ELSE 1)
               /\ key \notin kept => after[Len(after)].key = key]_vars

\* a full cache of 102 entries took a new key: the 100 oldest entries are
\* gone, the two newest are kept in their order before the new one
C25_Witness ==
    /\ last.op = "add_to_cache"
    /\ last.result = "full"
    /\ cache_max_size = EVICT_BATCH + 2
    /\ Len(cache) = 3
    /\ cache[1].key = FifoKey(EVICT_BATCH + 1)
    /\ cache[2].key = FifoKey(EVICT_BATCH + 2)
    /\ cache[3].key = FifoKey(EVICT_BATCH + 3)
    /\ last.text = cache[3].key

(***************************************************************************)
(* Properties of the audit trail.                                          *)
(***************************************************************************)
\* C26: the operations create, update_status, assign, update_planned_date
\* and the update by an administrator leave every record already in the
\* audit trail as it is and in its place; an accepted update_status
\* appends exactly one record, whose old_status and new_status are the
\* status of the task before and after the call; an update_status that is
\* refused appends none.
C26_AuditTrailAppendOnly ==
    [][\A before \in {comments} : \A after \in {comments'} :
        /\ Len(after) >= Len(before)
        /\ SubSeq(after, 1, Len(before)) = before
        /\ IsAcceptedUpdateStatus
               => /\ Len(after) = Len(before) + 1
                  /\ after[Len(after)].kind = "status"
                  /\ after[Len(after)].task_id = last'.task_id
                  /\ after[Len(after)].old_status
                         = tasks[last'.task_id].status
                  /\ after[Len(after)].new_status
                         = tasks'[last'.task_id].status
        /\ (/\ now' = now + 1
            /\ last'.op = "update_status"
            /\ last'.result # "ok")
               => after = before]_vars

\* one transition was accepted and recorded, the next request was refused
\* and the audit trail still holds the one record
C26_Witness ==
    /\ last.op = "update_status"
    /\ last.result = "InvalidTransition"
    /\ Len(comments) = 1
    /\ comments[1].kind = "status"
    /\ comments[1].task_id = last.task_id
    /\ comments[1].old_status = "NEW"
    /\ comments[1].new_status = tasks[last.task_id].status

(***************************************************************************)
(* Properties of requests that run at the same time.                       *)
(***************************************************************************)
\* C27 as stated: however the calls of update_status on one task
\* interleave, every change of the stored status is a pair of the
\* transition table, and the old_status of every record appended is the
\* stored status that the write of its call replaced.
C27_RacingUpdatesKeepTable ==
    [][(now' = now + 1 /\ last'.op = "update_status") =>
       \A id \in 1..Len(tasks) :
        /\ tasks'[id].status # tasks[id].status
               => tasks'[id].status
                      \in get_valid_transitions(tasks[id].status)
        /\ (/\ Len(comments') = Len(comments) + 1
            /\ comments'[Len(comments')].task_id = id
            /\ comments'[Len(comments')].kind = "status")
               => comments'[Len(comments')].old_status
                      = tasks[id].status]_vars

\* C28 as stated: however the calls of geocode() on the shared service
\* interleave, the cache never holds more entries than its maximum, and a
\* call whose lookup found a location returns it, never (0, 0).
C28_CacheAtomicUnderThreads ==
    /\ Len(cache) <= cache_max_size
    /\ \A i \in 1..Len(geo) :
          LookupSucceeded(geo[i]) => geo[i].coords # Sentinel

\* C29 as stated: when is_allowed has answered blocked for an address and
\* get_retry_after has returned r, the next call of is_allowed for the
\* address, if it comes r seconds later or more, is answered allowed.
C29_AllowedAfterRetryAfter ==
    \A i \in 1..Len(replies) : \A j \in (i + 1)..Len(replies) :
        (/\ ~replies[i].is_allowed
         /\ replies[j].ip = replies[i].ip
         /\ \A k \in (i + 1)..(j - 1) : replies[k].ip # replies[i].ip
         /\ replies[j].time >= replies[i].time + replies[i].retry_after)
        => replies[j].is_allowed

(***************************************************************************)
(* Properties of the task numbers.                                         *)
(***************************************************************************)
\* the number of the task is a run of digits, as every number taken from
\* a title, an address, a description or a dispatcher message is
HasExternalNumber(i) == IsDigits(tasks[i].task_number)

\* C30: a task created without an external number has the number made
\* from its own id, and no other task, whether its number was generated
\* or taken from an external number, has the same number.
C30_GeneratedNumbersUnique ==
    \A i \in 1..Len(tasks) :
        ~HasExternalNumber(i)
            => /\ tasks[i].task_number = GeneratedNumber(i)
               /\ \A j \in 1..Len(tasks) :
                      j # i => tasks[j].task_number # tasks[i].task_number

\* three tasks: the first and the third with generated numbers, the
\* second with the number of the dispatcher
C30_Witness ==
    /\ Len(tasks) = 3
    /\ ~HasExternalNumber(1)
    /\ HasExternalNumber(2)
    /\ ~HasExternalNumber(3)
    /\ tasks[1].task_number = "Z-00001"
    /\ tasks[3].task_number = "Z-00003"

====
